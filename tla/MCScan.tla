-------------------------------- MODULE MCScan --------------------------------
(* Broadcasts for Scan: text of bytes 10 and more, in blocks of two.         *)
EXTENDS Scan

Plain(id) == [port |-> PORT_31, framed |-> TRUE, id |-> id, bytes |-> id,
              ip |-> "own", sender |-> "s"]
Coded(id, bytes) == [port |-> PORT_33, framed |-> TRUE, id |-> id, bytes |-> bytes,
                     ip |-> Unset, sender |-> "s"]
Other(id, framed, bytes, sender) ==
  [port |-> PORT_35, framed |-> framed, id |-> id, bytes |-> bytes, ip |-> Unset,
   sender |-> sender]

\* The same device on two ports, one whose text fills its block, one of protocol 3.5;
\* then what decrypts to a text with a wrong padding and to one without an id, and on
\* port 7000 a stray datagram and an empty one.
MCDatagrams ==
  {Plain(<<10>>), Coded(<<10>>, <<10, 1>>), Coded(<<10, 11>>, <<10, 11, 2, 2>>),
   Coded(NoText, <<12, 2>>), Coded(NoText, <<2, 1>>),
   Other(<<12>>, TRUE, <<12>>, "s"), Other(NoText, FALSE, <<12>>, "t"),
   Other(NoText, FALSE, NoText, "u")}

=============================================================================
