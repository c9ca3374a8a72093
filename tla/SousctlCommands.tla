------------------------- MODULE SousctlCommands -------------------------
(***************************************************************************)
(* examples/sousctl.c around a run: the configuration and the address of   *)
(* the cooker (read_config, resolve_mac), and main()'s loop over the       *)
(* command line, which executes some commands while it reads (status,      *)
(* read, off, and temp before the first phase) and collects the others     *)
(* into the chain that Sousctl runs.                                       *)
(*                                                                         *)
(* A signal has its default effect until the chain starts: the program is  *)
(* killed.  The chain itself is one step here, with the ends Sousctl gives *)
(* it.  A word of the command line is a command, a number with a unit (in  *)
(* tenths) or a clock of two or three fields.                              *)
(***************************************************************************)
EXTENDS Integers, Sequences, FiniteSets

CONSTANTS
  Invocations, \* [argv, dryRun, override, config, arp]: the words, -n and -i, the
               \* lines of the config file, the rows of the ARP tables in order
  IntMax       \* INT_MAX

NoText == ""

\* A number has its tenths and a clock two or three fields.
ASSUME InvocationAssumption ==
  \A v \in Invocations :
    /\ Len(v.argv) \in Nat /\ DOMAIN v.argv = 1..Len(v.argv)
    /\ DOMAIN v.arp \subseteq Nat
    /\ \A n \in DOMAIN v.argv :
         LET w == v.argv[n]
         IN /\ w.word = "number" => w.tenths \in Int
            /\ w.word = "clock" => w.fields \in Seq(Int) /\ Len(w.fields) \in {2, 3}

ASSUME IntAssumption == IntMax \in Nat

VARIABLES
  inv,      \* the invocation
  pc, i,    \* where main() is, and its index
  phases,   \* the chain collected
  address,  \* cfg.ip
  acts      \* what the cooker was told

vars == <<inv, pc, i, phases, address, acts>>

argv == inv.argv

-----------------------------------------------------------------------------
(* The configuration and the address.                                      *)

Latest(S) == CHOOSE n \in S : \A m \in S : m <= n
Earliest(S) == CHOOSE n \in S : \A m \in S : n <= m

\* A "[...]" line starts a section; the settings are those of "[sousvide]".
InSection(file, n) ==
  LET headers == {h \in 1..n : file[h].key = "["}
  IN headers # {} /\ file[Latest(headers)].val = "sousvide"

\* The last setting of a key counts.
Setting(file, key) ==
  LET found == {n \in DOMAIN file : file[n].key = key /\ InSection(file, n)}
  IN IF found = {} THEN NoText ELSE file[Latest(found)].val

Complete(file) ==
  \A key \in {"device_id", "local_key", "ip"} : Setting(file, key) # NoText

\* arp_line_match(): the address that a row gives for a MAC, or {}.  "columns" are
\* the words of the row, "dashes" says that the second has a dash, "paren" is the
\* text in parentheses and "at" the word after " at ".  The columns one and four are
\* meant for /proc/net/arp, the second form for Windows and the third for BSD; the
\* third takes the first word when nothing is in parentheses, and compares rubbish when
\* an earlier form has used the buffer hw_norm, which mac_normalise() appends to.
ArpLineMatch(row, mac) ==
  LET c == row.columns
      first == Len(c) >= 4
      second == Len(c) >= 2 /\ row.dashes
  IN IF first /\ c[4] = mac THEN {c[1]}
     ELSE IF second /\ ~first /\ c[2] = mac THEN {c[1]}
     ELSE IF ~first /\ ~second /\ Len(c) >= 1 /\ row.at = mac
       THEN {IF row.paren # NoText THEN row.paren ELSE c[1]}
     ELSE {}

\* Mutant: the first row is taken, whatever its MAC.
ResolveMacFirst(rows, ours) == IF rows = <<>> THEN {} ELSE {rows[1].columns[1]}

\* resolve_mac(): the first match, for "ours", the MAC as it was normalised.
ResolveMac(rows, ours) ==
  LET hits == {n \in DOMAIN rows : ArpLineMatch(rows[n], ours) # {}}
  IN IF hits = {} THEN {} ELSE ArpLineMatch(rows[Earliest(hits)], ours)

\* mac_normalise() writes no terminator: in the uninitialised mac_norm the result
\* is the MAC, or something that is no MAC.
Normalised(mac) == {mac, "rubbish"}

\* -i counts, else the ARP tables if there is a MAC and it is found, else the file.
Addresses ==
  LET mac == Setting(inv.config, "mac")
      ip == Setting(inv.config, "ip")
  IN IF inv.override # NoText THEN {inv.override}
     ELSE IF mac = NoText THEN {ip}
     ELSE UNION {LET hit == ResolveMac(inv.arp, ours) IN IF hit = {} THEN {ip} ELSE hit
                 : ours \in Normalised(mac)}

\* Without a command, or with a setting missing, the program ends at once.
Configure ==
  /\ pc = "config"
  /\ IF argv # <<>> /\ Complete(inv.config)
       THEN pc' = "parse" /\ address' \in Addresses
       ELSE pc' = "failed" /\ UNCHANGED address
  /\ UNCHANGED <<inv, i, phases, acts>>

-----------------------------------------------------------------------------
(* The words of the command line.                                          *)

\* round(n / d), halves away from zero.
Round(n, d) == IF n >= 0 THEN (2 * n + d) \div (2 * d)
                         ELSE -((2 * (-n) + d) \div (2 * d))

\* What becomes of an int that does not fit: a sum or product wraps around, and the
\* conversion of a double gives the least or the greatest of them.
Wrapped(n) == ((n + IntMax + 1) % (2 * IntMax + 2)) - IntMax - 1
Converted(n) == IF n \in (-IntMax - 1)..IntMax THEN {n} ELSE {-IntMax - 1, IntMax}

\* parse_temp(): tenths of a degree Celsius, or {}.
ParseTemp(w) ==
  IF w.word # "number" THEN {}
  ELSE IF w.unit \in {"", "C"} THEN Converted(w.tenths)
  ELSE IF w.unit = "F" THEN Converted(Round((w.tenths - 320) * 5, 9))
  ELSE {}

\* parse_duration(): seconds, or {}, which are looked at before they are added up.  The
\* leading integer of a number is minutes, whatever follows it.
ParseDuration(w) ==
  LET f == w.fields
  IN IF w.word = "number"
       THEN IF w.tenths >= 0 THEN {Wrapped((w.tenths \div 10) * 60)} ELSE {}
     ELSE IF w.word # "clock" THEN {}
     ELSE IF Len(f) = 3
       THEN IF f[1] >= 0 /\ f[2] \in 0..59 /\ f[3] \in 0..59
              THEN {Wrapped(f[1] * 3600 + f[2] * 60 + f[3])} ELSE {}
     ELSE IF f[1] >= 0 /\ f[2] \in 0..59 THEN {Wrapped(f[1] * 60 + f[2])} ELSE {}

\* Mutant: a phase may last no time.
DurationsZero(w) == ParseDuration(w)

\* A phase lasts a second at least.
Durations(w) == {s \in ParseDuration(w) : s >= 1}

\* The arguments that a command takes.
Arity == [ramp |-> 3, hold |-> 2, pause |-> 1, temp |-> 1,
          status |-> 0, read |-> 0, off |-> 0]

Known(n) == argv[n].word \in DOMAIN Arity
After(n) == n + 1 + Arity[argv[n].word]
Enough(n) == After(n) <= Len(argv) + 1

\* The phase that the command at n is, or {}.
PhaseAt(n) ==
  LET w == argv[n].word
      temp(k) == ParseTemp(argv[n + k])
      secs(k) == Durations(argv[n + k])
  IN CASE w = "ramp" -> {[kind |-> IF a = b THEN "hold" ELSE "ramp",
                          start |-> a, end |-> b, secs |-> s]
                           : a \in temp(1), b \in temp(2), s \in secs(3)}
       [] w = "hold" -> {[kind |-> "hold", start |-> a, end |-> a, secs |-> s]
                           : a \in temp(1), s \in secs(2)}
       [] w = "pause" -> {[kind |-> "pause", start |-> 0, end |-> 0, secs |-> s]
                           : s \in secs(1)}
       [] w = "temp" -> {[kind |-> "temp", start |-> a, end |-> a, secs |-> 0]
                           : a \in temp(1)}
       [] OTHER -> {}

\* Mutant: a temp is never collected, also behind a phase.
AtOnceAlways(n) == argv[n].word \in {"status", "read", "off", "temp"}

\* The command is carried out at once, and not collected.
AtOnce(n) ==
  \/ argv[n].word \in {"status", "read", "off"}
  \/ argv[n].word = "temp" /\ phases = <<>>

Valid(n) ==
  /\ Known(n) /\ Enough(n)
  /\ argv[n].word \in {"status", "read", "off"} \/ PhaseAt(n) # {}

Reading == pc = "parse" /\ i <= Len(argv)

-----------------------------------------------------------------------------
(* The loop over the words.                                                *)

Act(op, t) == [op |-> op, temp |-> t]

\* What the cooker is told at once for the command at n; for a temp that is to
\* switch on and the setpoint.
Told(n) ==
  LET w == argv[n].word
  IN IF w = "temp" THEN {Act("temp", ph.start) : ph \in PhaseAt(n)}
                   ELSE {Act(IF w = "off" THEN "off" ELSE "query", 0)}

\* Mutant: the dry run of a command is forgotten.
TellAlways(n) == \E a \in Told(n) : acts' = Append(acts, a)

Tell(n) == IF inv.dryRun THEN UNCHANGED acts
                         ELSE \E a \in Told(n) : acts' = Append(acts, a)

\* status, read, off, and a temp before the first phase, which waits for the water
\* when more words follow.
Immediate ==
  /\ Reading /\ Valid(i) /\ AtOnce(i)
  /\ Tell(i)
  /\ i' = After(i)
  /\ pc' = IF ~inv.dryRun /\ argv[i].word = "temp" /\ After(i) <= Len(argv)
             THEN "wait" ELSE "parse"
  /\ UNCHANGED <<inv, phases, address>>

\* wait_for_temp() of such a temp: the water is warm enough, or the ALARM exit
\* after a fault, which switches the cooker off.
Warm ==
  /\ pc = "wait"
  /\ pc' = "parse"
  /\ UNCHANGED <<inv, i, phases, address, acts>>

Alarm ==
  /\ pc = "wait"
  /\ acts' = Append(acts, Act("off", 0))
  /\ pc' = "alarm"
  /\ UNCHANGED <<inv, i, phases, address>>

Collect ==
  /\ Reading /\ Valid(i) /\ ~AtOnce(i)
  /\ \E ph \in PhaseAt(i) : phases' = Append(phases, ph)
  /\ i' = After(i)
  /\ UNCHANGED <<inv, pc, address, acts>>

\* An unknown command, or one with a missing or a bad argument.
Reject ==
  /\ Reading /\ ~Valid(i)
  /\ pc' = "rejected"
  /\ UNCHANGED <<inv, i, phases, address, acts>>

\* No handle for the cooker, without memory or a connection, or no memory for the phases.
NoMemory ==
  /\ pc = "parse"
  /\ i <= Len(argv) => Valid(i)
  /\ pc' = "failed"
  /\ UNCHANGED <<inv, i, phases, address, acts>>

\* The ends of a chain, a second signal excepted.
ChainDone ==
  pc' \in {"done", "alarm"} /\ acts' = acts \o <<Act("chain", 0), Act("off", 0)>>

\* The chain runs: the cooker is on, and off again unless a second signal comes.
RunChain ==
  /\ pc = "parse" /\ i > Len(argv) /\ phases # <<>> /\ ~inv.dryRun
  /\ \/ ChainDone
     \/ pc' = "killed" /\ acts' = Append(acts, Act("chain", 0))
  /\ UNCHANGED <<inv, i, phases, address>>

Finish ==
  /\ pc = "parse" /\ i > Len(argv)
  /\ phases = <<>> \/ inv.dryRun
  /\ pc' = "done"
  /\ UNCHANGED <<inv, i, phases, address, acts>>

Killed ==
  /\ pc \in {"config", "parse", "wait"}
  /\ pc' = "killed"
  /\ UNCHANGED <<inv, i, phases, address, acts>>

Init ==
  /\ inv \in Invocations
  /\ pc = "config" /\ i = 1 /\ phases = <<>> /\ address = NoText /\ acts = <<>>

Next == \/ Configure \/ Immediate \/ Warm \/ Alarm \/ Collect \/ Reject \/ NoMemory
        \/ RunChain \/ Finish \/ Killed

Spec == Init /\ [][Next]_vars

-----------------------------------------------------------------------------
(* Properties.                                                             *)

Phase == [kind : {"temp", "pause", "hold", "ramp"}, start : Int, end : Int, secs : Nat]

\* Every variable has its type, and what is collected is a chain as Sousctl assumes
\* it: a hold and a temp are at one temperature, and all phases but temp take time.
TypeOK ==
  /\ pc \in {"config", "parse", "wait", "done", "failed", "rejected", "alarm", "killed"}
  /\ i \in 1..(Len(argv) + 1)
  /\ phases \in Seq(Phase)
  /\ \A n \in DOMAIN phases :
       /\ phases[n].kind \in {"temp", "hold"} => phases[n].start = phases[n].end
       /\ phases[n].kind # "temp" => phases[n].secs > 0
  /\ acts \in Seq([op : {"query", "off", "temp", "chain"}, temp : Int])

\* The address used is that of -i, that of the file, or one that a row of the ARP
\* tables gives for the MAC of the file (resolve_mac()).  What a row says is its
\* "ip" and "mac", however its words are laid out.
AddressOfCooker ==
  address \in {NoText, inv.override, Setting(inv.config, "ip")}
    \cup {inv.arp[n].ip : n \in {m \in DOMAIN inv.arp :
                                   inv.arp[m].mac = Setting(inv.config, "mac")}}

\* The words at which the commands of the line start, when it is a line of well
\* formed commands.
Heads == {S \in SUBSET DOMAIN argv :
            /\ \A n \in S : Valid(n)
            /\ \A n \in DOMAIN argv : n \in S <=> n = 1 \/ \E m \in S : n = After(m)}

\* The line asks for a chain from its first ramp, hold or pause on, and for the
\* other commands at once.
Heating == {n \in DOMAIN argv : argv[n].word \in {"ramp", "hold", "pause"}}
InChain(S) == {n \in S : \/ n \in Heating
                         \/ argv[n].word = "temp" /\ \E m \in S \cap Heating : m < n}
Early(S) == S \ InChain(S)

\* Which of the commands in S the one at n is.
Rank(n, S) == Cardinality({m \in S : m <= n})

\* The phases and the orders are those of the commands in S, in the order written.
PhasesOf(S) ==
  Len(phases) = Cardinality(S) /\ \A n \in S : phases[Rank(n, S)] \in PhaseAt(n)
OrdersOf(S) == \A n \in S : acts[Rank(n, S)] \in Told(n)

\* main() reads the line as its grammar says, whatever is in it: it is rejected only
\* when it is no line of well formed commands, and carried out to its end only when
\* it is one; the cooker is then told the immediate commands in the order written,
\* and after all of them the chain.
AsWritten ==
  /\ pc = "rejected" => Heads = {}
  /\ pc = "done" => \E S \in Heads :
       LET early == Cardinality(Early(S))
       IN /\ PhasesOf(InChain(S))
          /\ IF inv.dryRun THEN acts = <<>>
             ELSE /\ OrdersOf(Early(S))
                  /\ IF phases = <<>> THEN Len(acts) = early
                     ELSE /\ Len(acts) = early + 2
                          /\ acts[early + 1] = Act("chain", 0)
                          /\ acts[early + 2] = Act("off", 0)

LastPower ==
  LET sent == {n \in DOMAIN acts : acts[n].op # "query"}
  IN IF sent = {} THEN "none" ELSE acts[Latest(sent)].op

\* The orders on the line, as far as it was read, that are not for a chain: every off,
\* and a temp before the first ramp, hold or pause.
Orders == {n \in DOMAIN argv :
             /\ n < i
             /\ \/ argv[n].word = "off"
                \/ argv[n].word = "temp" /\ \A m \in Heating : ~(m < n)}
LastOrder == IF Orders = {} THEN "none" ELSE argv[Latest(Orders)].word

\* How a run that was not killed leaves the cooker: off after a chain or an alarm, and
\* otherwise as the last order read says, also when the line is rejected at a later word,
\* whatever phases were read in between and will not be run.
LeftAsOrdered ==
  pc \in {"done", "failed", "rejected", "alarm"} /\ ~inv.dryRun =>
    LastPower = IF pc = "alarm" \/ (pc = "done" /\ phases # <<>>) THEN "off" ELSE LastOrder

\* -n: nothing is sent, whatever the line and however it ends (main()'s dry_run).
DryRunSilent == inv.dryRun => acts = <<>> /\ pc # "wait"

=============================================================================
