------------------------- MODULE MCSousctlCommands -------------------------
(* Every line of at most five words of a small vocabulary, longer ones, and   *)
(* files and ARP tables of several kinds for SousctlCommands.                 *)
EXTENDS SousctlCommands

Cmd(w) == [word |-> w]
Num(t, u) == [word |-> "number", tenths |-> t, unit |-> u]
Clock(f) == [word |-> "clock", fields |-> f]

Words == {Cmd("status"), Cmd("temp"), Cmd("hold"), Cmd("pause"), Cmd("junk"),
          Num(550, "C")}

Hold == <<Cmd("hold"), Num(1310, "F"), Clock(<<1, 30>>)>>
Ramp == <<Cmd("ramp"), Num(-5, ""), Num(550, "C"), Clock(<<0, 1, 0>>)>>
Short == UNION {[1..n -> Words] : n \in 0..3}
Long == [1..4 -> Words] \cup [1..5 -> Words] \cup {
  Ramp \o Hold \o <<Cmd("temp"), Num(400, "C"), Cmd("off")>>,
  <<Cmd("temp"), Num(400, "C")>> \o Ramp \o <<Cmd("read")>>,
  <<Cmd("off")>> \o Hold \o <<Cmd("pause"), Clock(<<0, 60>>)>>,
  <<Cmd("status"), Cmd("hold"), Num(400, "C"), Num(0, "")>>,
  <<Cmd("temp"), Num(400, "C")>> \o Ramp \o <<Cmd("off"), Cmd("junk")>>,
  <<Cmd("temp"), Num(400, "C")>> \o Hold \o <<Cmd("temp"), Num(12000, "C"), Cmd("junk")>>,
  <<Cmd("hold"), Num(-12000, ""), Clock(<<6, 0, 0>>), Cmd("pause"), Clock(<<3, 0, 0>>)>>,
  <<Cmd("ramp"), Num(400, "C"), Num(400, ""), Num(375, "x"), Cmd("ramp"), Num(1, "")>>}

L(k, v) == [key |-> k, val |-> v]
File == <<L("[", "other"), L("ip", "lamp"), L("[", "sousvide"), L("device_id", "id"),
          L("local_key", "key"), L("ip", "old"), L("ip", "file")>>
WithMac == File \o <<L("mac", "cooker"), L("[", "other"), L("mac", "lamp")>>
NoKey == <<L("[", "sousvide"), L("device_id", "id"), L("ip", "file")>>

Row(c, d, p, at, ip, mac) ==
  [columns |-> c, dashes |-> d, paren |-> p, at |-> at, ip |-> ip, mac |-> mac]
Proc(ip, mac) == Row(<<ip, "0x1", "0x2", mac, "*", "eth0">>, FALSE, NoText, NoText, ip, mac)
Windows(ip, mac) == Row(<<ip, mac, "dynamic">>, TRUE, NoText, NoText, ip, mac)
Bare(ip, mac) == Row(<<ip, "at", mac>>, FALSE, NoText, mac, ip, mac)
Bsd(ip, mac) == Row(<<"?", ip, "at", mac, "on", "en0">>, FALSE, ip, mac, ip, mac)

Invocation(line, dry, over, file, rows) ==
  [argv |-> line, dryRun |-> dry, override |-> over, config |-> file, arp |-> rows]
MCInvocations ==
  {Invocation(line, TRUE, NoText, File, <<>>) : line \in Short}
  \cup {Invocation(line, FALSE, NoText, File, <<>>) : line \in Short \cup Long}
  \cup {Invocation(Hold, FALSE, over, file, rows) :
          over \in {NoText, "option"}, file \in {File, WithMac, NoKey},
          rows \in {<<Proc("lamp", "lamp"), Proc("arp", "cooker")>>,
                    <<Windows("lamp", "lamp"), Bare("arp", "cooker")>>,
                    <<Bare("lamp", "lamp"), Windows("arp", "cooker")>>}}

\* What arp -a prints on BSD, macOS and Linux.
BsdInvocations ==
  {Invocation(Hold, FALSE, NoText, WithMac, <<Bsd("lamp", "lamp"), Bsd("arp", "cooker")>>)}

=============================================================================
