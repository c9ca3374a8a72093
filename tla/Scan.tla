---------------------------------- MODULE Scan ----------------------------------
(***************************************************************************)
(* examples/tuyascan.c: datagrams that devices broadcast on three ports    *)
(* are read until a deadline and each device is listed once, as long as    *)
(* there is room in the table of those seen.                               *)
(*                                                                         *)
(* A datagram carries what its device calls itself ("id", empty for a      *)
(* stray one that is no device's broadcast) next to the bytes that say so: *)
(* what aes128_ecb_decrypt() leaves on port 6667 before it looks at the    *)
(* padding, the payload as it is on 6666, and on 7000 whatever they are.   *)
(* A byte above AES_BLOCK is part of the text.                             *)
(***************************************************************************)
EXTENDS Integers, FiniteSets, Sequences

CONSTANTS
  Datagrams,   \* [port, framed, id, bytes, ip, sender]
  AES_BLOCK,   \* of bytes
  Capacity,    \* MAX_DEVICES
  QueueLen,    \* datagrams that the kernel holds for a socket
  Wait,        \* seconds, wait_secs
  MaxFound     \* bound: what is counted of the lines

PORT_31 == 6666
PORT_33 == 6667
PORT_35 == 7000
ports == <<PORT_31, PORT_33, PORT_35>>
Ports == {PORT_31, PORT_33, PORT_35}
NoText == <<>>
Unset == ""

ASSUME ScanAssumption ==
  /\ AES_BLOCK \in Nat \ {0} /\ Capacity \in Nat /\ QueueLen \in Nat
  /\ Wait \in Nat \ {0} /\ MaxFound \in Nat /\ MaxFound > Capacity
  /\ \A d \in Datagrams :
       /\ d.port \in Ports /\ d.framed \in BOOLEAN
       /\ d.id \in Seq(Nat) /\ d.bytes \in Seq(Nat)
       /\ d.ip \in STRING /\ d.sender \in STRING

VARIABLES
  pc,        \* "open", "select", "read", "done" or "failed"
  socks,     \* the ports whose socket could be bound
  queue,     \* per port, the datagrams in the kernel
  ready,     \* the ports of this round that select() found readable
  seen,      \* the devices in seen_devices
  printed,   \* the lines of the list: [key, ip]; found counts them
  found,     \* main()'s count, up to MaxFound
  clock,     \* seconds since the start, up to the deadline
  heard,     \* for the properties: the devices whose broadcasts were read,
  strays,    \* the senders of the other datagrams read on port 7000, and
  passed     \* per port with a datagram waiting, the datagrams read from other ports
             \* since it has been so

vars == <<pc, socks, queue, ready, seen, printed, found, clock, heard, strays, passed>>

-----------------------------------------------------------------------------
(* One datagram.                                                           *)

\* What a device is known by: its id, or for protocol 3.5 its address.
Key(id, from) == [id |-> id, from |-> from]

\* Mutant: a block that holds nothing but padding is not expected.
UnpadShort(bytes) ==
  LET len == Len(bytes) pad == bytes[len]
  IN IF len = 0 \/ len % AES_BLOCK # 0 THEN -1
     ELSE IF pad < 1 \/ pad >= AES_BLOCK \/ pad > len THEN -1
     ELSE IF \E n \in (len - pad + 1)..len : bytes[n] # pad THEN -1 ELSE len - pad

\* The length of the text in front of the padding, -1 if there is none such.
Unpad(bytes) ==
  LET len == Len(bytes) pad == bytes[len]
  IN IF len = 0 \/ len % AES_BLOCK # 0 THEN -1
     ELSE IF pad < 1 \/ pad > AES_BLOCK \/ pad > len THEN -1
     ELSE IF \E n \in (len - pad + 1)..len : bytes[n] # pad THEN -1 ELSE len - pad

\* json_get_string() for "gwId": a text that has one is the id itself here.
GwId(text) == IF \E n \in DOMAIN text : text[n] <= AES_BLOCK THEN NoText ELSE text

\* The id that handle_packet() finds, NoText where it returns early.
Decoded(d) ==
  LET plen == IF d.port = PORT_33 THEN Unpad(d.bytes) ELSE Len(d.bytes)
  IN IF ~d.framed \/ Len(d.bytes) = 0 \/ plen < 0 THEN NoText
     ELSE GwId(SubSeq(d.bytes, 1, plen))

KeyOf(d) == IF d.port = PORT_35 THEN Key(NoText, d.sender) ELSE Key(Decoded(d), Unset)

\* An address that the broadcast does not give is its sender's.
IpOf(d) == IF d.port = PORT_35 \/ d.ip = Unset THEN d.sender ELSE d.ip

AlreadySeen(key) == key \in seen

\* Mutants: the table is written past its end, or its last place is left empty.
RoomAlways == TRUE
RoomButOne == Cardinality(seen) + 1 < Capacity

Room == Cardinality(seen) < Capacity

\* A device that is in the table has been printed; one for which there is no room is
\* printed again each time.
Prints(key) == key # Key(NoText, Unset) /\ ~AlreadySeen(key)

Handle(d) ==
  LET key == KeyOf(d)
  IN IF Prints(key)
       THEN /\ seen' = IF Room THEN seen \cup {key} ELSE seen
            /\ printed' = printed \cup {[key |-> key, ip |-> IpOf(d)]}
            /\ found' = IF found < MaxFound THEN found + 1 ELSE found
       ELSE UNCHANGED <<seen, printed, found>>

-----------------------------------------------------------------------------
(* The program.                                                            *)

\* open_listener() for each port: a port may be in use.
Open ==
  /\ pc = "open"
  /\ \E bound \in SUBSET Ports :
       /\ socks' = bound
       /\ pc' = IF bound = {} THEN "failed" ELSE "select"
  /\ UNCHANGED <<queue, ready, seen, printed, found, clock, heard, strays, passed>>

Readable == {p \in socks : queue[p] # <<>>}

\* Mutant: what is there is read before the deadline counts.
GoesOnBusy == clock < Wait \/ Readable # {}

\* The test of main()'s loop.
GoesOn == clock < Wait

\* select(): its timeouts change nothing.
Select ==
  /\ pc = "select" /\ GoesOn /\ Readable # {}
  /\ ready' = Readable
  /\ pc' = "read"
  /\ UNCHANGED <<socks, queue, seen, printed, found, clock, heard, strays, passed>>

\* The next port of the round, in the order of the array.
NextPort == ports[CHOOSE n \in 1..3 : ports[n] \in ready
                                      /\ \A m \in 1..(n - 1) : ports[m] \notin ready]

\* Mutant: after each datagram select() is called again.
RestRound == {}

Rest == ready \ {NextPort}

\* d is a device's broadcast, and the device, as a reader of the list would expect it.
Proper(d) == d.id # NoText
Announced(d) == IF d.port = PORT_35 THEN Key(NoText, d.sender) ELSE Key(d.id, Unset)

\* recvfrom() returns no byte of d.
Empty(d) == ~d.framed /\ d.bytes = NoText

\* Another datagram on port 7000.
Stray(d) == ~Proper(d) /\ ~Empty(d) /\ d.port = PORT_35

\* recvfrom() and handle_packet() for the next port that is readable.
Read ==
  /\ pc = "read"
  /\ LET p == NextPort  d == Head(queue[p])
     IN /\ IF Empty(d) THEN UNCHANGED <<seen, printed, found>> ELSE Handle(d)
        /\ heard' = IF Proper(d) THEN heard \cup {Announced(d)} ELSE heard
        /\ strays' = IF Stray(d) THEN strays \cup {Announced(d)} ELSE strays
        /\ queue' = [queue EXCEPT ![p] = Tail(@)]
        /\ passed' = [q \in Ports |-> IF q = p \/ queue[q] = <<>> THEN 0 ELSE passed[q] + 1]
  /\ ready' = Rest
  /\ pc' = IF ready' = {} THEN "select" ELSE "read"
  /\ UNCHANGED <<socks, clock>>

Finish ==
  /\ pc = "select" /\ ~GoesOn
  /\ pc' = "done"
  /\ UNCHANGED <<socks, queue, ready, seen, printed, found, clock, heard, strays, passed>>

-----------------------------------------------------------------------------
(* What is on the network, and the clock.                                  *)

HasId(text) == text # NoText /\ \A n \in DOMAIN text : text[n] > AES_BLOCK

Padding(n) == [k \in 1..n |-> n]

\* The bytes of d are text as it is sent to the port of d.
Carries(d, text) ==
  IF d.port = PORT_33
    THEN \E n \in 1..AES_BLOCK :
           (Len(text) + n) % AES_BLOCK = 0 /\ d.bytes = text \o Padding(n)
    ELSE d.bytes = text

\* The kernel gives each datagram a sender.  A device's broadcast on 6666 or 6667 is framed
\* and carries its id, and one on 7000 is not empty; another datagram may hold anything,
\* on 6666 and 6667 anything but a frame that carries an id.
ASSUME BroadcastAssumption ==
  \A d \in Datagrams :
    /\ d.sender # Unset
    /\ d.port = PORT_35 => (d.id # NoText => d.framed)
    /\ d.port # PORT_35 =>
         IF d.id # NoText THEN d.framed /\ HasId(d.id) /\ Carries(d, d.id)
         ELSE d.framed => \A len \in 0..Len(d.bytes) :
                LET text == SubSeq(d.bytes, 1, len)
                IN Carries(d, text) => ~HasId(text)

\* A datagram comes in, at any time and for ever; what the kernel has no room for is lost,
\* and so may others be.
Broadcast ==
  /\ pc \in {"select", "read"}
  /\ \E d \in Datagrams :
       /\ d.port \in socks /\ Len(queue[d.port]) < QueueLen
       /\ queue' = [queue EXCEPT ![d.port] = Append(@, d)]
  /\ UNCHANGED <<pc, socks, ready, seen, printed, found, clock, heard, strays, passed>>

Tick ==
  /\ clock < Wait /\ pc \in {"select", "read"}
  /\ clock' = clock + 1
  /\ UNCHANGED <<pc, socks, queue, ready, seen, printed, found, heard, strays, passed>>

Init ==
  /\ pc = "open" /\ socks = {} /\ ready = {}
  /\ queue = [p \in Ports |-> <<>>] /\ passed = [p \in Ports |-> 0]
  /\ seen = {} /\ printed = {} /\ found = 0
  /\ clock = 0 /\ heard = {} /\ strays = {}

Program == Open \/ Select \/ Read \/ Finish

Next == Program \/ Broadcast \/ Tick

\* The program runs and time passes.
Spec == Init /\ [][Next]_vars /\ WF_vars(Program) /\ WF_vars(Tick)

-----------------------------------------------------------------------------
(* Properties.                                                             *)

Keys == {KeyOf(d) : d \in Datagrams} \cup {Announced(d) : d \in Datagrams}

\* Every variable has its type; the table has no more entries than MAX_DEVICES.
TypeOK ==
  /\ pc \in {"open", "select", "read", "done", "failed"}
  /\ socks \subseteq Ports /\ ready \subseteq socks
  /\ \A p \in Ports : queue[p] \in Seq(Datagrams) /\ Len(queue[p]) <= QueueLen
  /\ seen \subseteq Keys /\ Cardinality(seen) <= Capacity
  /\ printed \subseteq [key : Keys, ip : STRING]
  /\ found \in 0..MaxFound /\ clock \in 0..Wait
  /\ heard \subseteq Keys /\ strays \subseteq Keys
  /\ passed \in [Ports -> Nat]

Listed == {line.key : line \in printed}

\* The list has every device whose broadcast was read, on any port and also after the
\* table is full, and besides them only the senders of what else came on port 7000, where
\* handle_packet() does not look into a datagram: no id comes of a broken broadcast.
ListsWhatIsHeard == heard \subseteq Listed /\ Listed \subseteq heard \cup strays

\* As long as there is room for them in the table, the count at the end is that of what is
\* listed, each once; then it is higher, and each repetition of the rest is counted.
CountsDevices ==
  IF Cardinality(Listed) <= Capacity THEN found = Cardinality(Listed) ELSE found > Capacity

\* However busy a port is, a datagram that waits on another one is passed by at most
\* two rounds of the others.
NoPortStarves == \A p \in Ports : passed[p] <= 2 * (Cardinality(Ports) - 1)

\* The scan ends, also when broadcasts never stop coming (main()'s deadline).
Ends == <>(pc \in {"done", "failed"})

=============================================================================
