----------------------- MODULE SousctlCommandsProofs -----------------------
(***************************************************************************)
(* Theorems about SousctlCommands, for every command line.  Those about    *)
(* what is collected and where the reading stands follow from TypeOK,      *)
(* which is inductive; that about how the cooker is left needs what Append *)
(* does to the last power command, and that no argument is a command.  That the line is carried out as *)
(* it is written needs the words read so far to be the beginning of every  *)
(* reading of the line, and a least counterexample where one would expect  *)
(* an induction over the words.                                            *)
(***************************************************************************)
EXTENDS SousctlCommands, FiniteSetTheorems, TLAPS

Order == [op : {"query", "off", "temp", "chain"}, temp : Int]

-----------------------------------------------------------------------------
(* The least number of a set, which stands in for induction.               *)

Less == {p \in Nat \X Nat : p[1] < p[2]}

\* Among natural numbers there is a least one, and Earliest() gives it.
LEMMA EarliestIs ==
  ASSUME NEW S \in SUBSET Nat, S # {}
  PROVE  Earliest(S) \in S /\ \A m \in S : Earliest(S) <= m
<1>1. IsWellFoundedOn(Less, Nat)
  BY NatLessThanWellFounded DEF OpToRel, Less
<1>2. PICK n \in S : \A m \in S : ~ (<<m, n>> \in Less)
  BY <1>1, WFMin
<1>3. \A m \in S : n <= m
  <2> TAKE m \in S
  <2>1. m \in Nat /\ n \in Nat /\ ~ (m < n)
    BY <1>2 DEF Less
  <2> QED
    BY <2>1
<1> QED
  BY <1>3 DEF Earliest

-----------------------------------------------------------------------------
(* The parsers.                                                            *)

\* round() gives an integer.
LEMMA RoundType ==
  ASSUME NEW n \in Int, NEW d \in Nat \ {0} PROVE Round(n, d) \in Int
<1>1. \A m \in Int : m \div (2 * d) \in Int
  OBVIOUS
<1>2. 2 * n + d \in Int /\ 2 * (-n) + d \in Int
  OBVIOUS
<1> QED
  BY <1>1, <1>2 DEF Round

\* A sum that wraps around is an int, and what a double is converted to.
LEMMA WrappedType == ASSUME NEW n \in Int PROVE Wrapped(n) \in Int /\ Converted(n) \subseteq Int
<1>1. IntMax \in Nat
  BY IntAssumption
<1>2. \A a \in Int, b \in Nat : b > 0 => a % b \in Int
  OBVIOUS
<1>3. (n + IntMax + 1) % (2 * IntMax + 2) \in Int
  <2>1. n + IntMax + 1 \in Int /\ 2 * IntMax + 2 \in Nat /\ 2 * IntMax + 2 > 0
    BY <1>1
  <2> QED
    BY <1>2, <2>1, Zenon
<1> QED
  BY <1>1, <1>3 DEF Wrapped, Converted

\* parse_temp() gives tenths of a degree.
LEMMA TempType ==
  ASSUME NEW w, w.word = "number" => w.tenths \in Int
  PROVE  ParseTemp(w) \subseteq Int
<1>1. CASE w.word = "number"
  <2>1. (w.tenths - 320) * 5 \in Int
    BY <1>1
  <2>2. Round((w.tenths - 320) * 5, 9) \in Int
    BY <2>1, RoundType
  <2>3. Converted(w.tenths) \subseteq Int /\ Converted(Round((w.tenths - 320) * 5, 9)) \subseteq Int
    BY <1>1, <2>2, WrappedType
  <2> QED
    BY <1>1, <2>3 DEF ParseTemp
<1>2. CASE w.word # "number"
  BY <1>2 DEF ParseTemp
<1> QED
  BY <1>1, <1>2

\* parse_duration() gives seconds.
LEMMA DurationType ==
  ASSUME NEW w,
         w.word = "number" => w.tenths \in Int,
         w.word = "clock" => w.fields \in Seq(Int) /\ Len(w.fields) \in {2, 3}
  PROVE  ParseDuration(w) \subseteq Int
<1>1. CASE w.word = "number"
  <2>1. (w.tenths \div 10) * 60 \in Int
    BY <1>1
  <2>2. Wrapped((w.tenths \div 10) * 60) \in Int
    BY <2>1, WrappedType
  <2> QED
    BY <1>1, <2>2 DEF ParseDuration
<1>2. CASE w.word = "clock"
  <2> DEFINE f == w.fields
  <2>1. /\ Len(f) = 2 => f[1] \in Int /\ f[2] \in Int
        /\ Len(f) = 3 => f[1] \in Int /\ f[2] \in Int /\ f[3] \in Int
    BY <1>2
  <2>2. \A x, y, z \in Int : x * 3600 + y * 60 + z \in Int /\ x * 60 + y \in Int
    OBVIOUS
  <2>3. \A x, y, z \in Int : Wrapped(x * 3600 + y * 60 + z) \in Int /\ Wrapped(x * 60 + y) \in Int
    BY <2>2, WrappedType
  <2>4. CASE Len(f) = 3
    <3>1. Wrapped(f[1] * 3600 + f[2] * 60 + f[3]) \in Int
      BY <2>1, <2>3, <2>4
    <3> QED
      BY <1>2, <2>4, <3>1 DEF ParseDuration
  <2>5. CASE Len(f) = 2
    <3>1. Wrapped(f[1] * 60 + f[2]) \in Int
      BY <2>1, <2>2, <2>5, WrappedType
    <3> QED
      BY <1>2, <2>5, <3>1 DEF ParseDuration
  <2> QED
    BY <1>2, <2>4, <2>5
<1>3. CASE w.word \notin {"number", "clock"}
  BY <1>3 DEF ParseDuration
<1> QED
  BY <1>1, <1>2, <1>3

\* What a command collects is a phase of a chain as Sousctl assumes it.
Sound(ph) ==
  /\ ph \in Phase
  /\ ph.kind \in {"temp", "hold"} => ph.start = ph.end
  /\ ph.kind # "temp" => ph.secs > 0

\* Durations() gives what takes time.
LEMMA DurationsType ==
  ASSUME NEW w,
         w.word = "number" => w.tenths \in Int,
         w.word = "clock" => w.fields \in Seq(Int) /\ Len(w.fields) \in {2, 3}
  PROVE  \A s \in Durations(w) : s \in Nat /\ s > 0
<1>1. \A s \in Int : s >= 1 => s \in Nat /\ s > 0
  OBVIOUS
<1> QED
  BY <1>1, DurationType DEF Durations

\* The arguments of a command that has enough of them are words of the line.
LEMMA Arguments ==
  ASSUME NEW n \in DOMAIN argv, InvocationAssumption, inv \in Invocations, Known(n), Enough(n)
  PROVE  /\ After(n) \in 2..(Len(argv) + 1)
         /\ \A k \in 1..Arity[argv[n].word] : n + k \in DOMAIN argv
<1>1. Len(argv) \in Nat /\ DOMAIN argv = 1..Len(argv)
  BY DEF InvocationAssumption, argv
<1>2. Arity[argv[n].word] \in 0..3
  BY DEF Known, Arity
<1> DEFINE a == Arity[argv[n].word]
           len == Len(argv)
<1>3. n \in 1..len /\ len \in Nat
  BY <1>1
<1>4. n + 1 + a <= len + 1
  BY DEF Enough, After
<1>5. a \in 0..3
  BY <1>2
<1>6. After(n) = n + 1 + a
  BY DEF After
<1> HIDE DEF a, len
<1>7. n + 1 + a \in 2..(len + 1) /\ \A k \in 1..a : n + k \in 1..len
  BY <1>3, <1>4, <1>5
<1> QED
  BY <1>1, <1>6, <1>7 DEF a, len

\* ramp, hold, pause and temp give phases that are sound.
LEMMA PhaseSound ==
  ASSUME NEW n \in DOMAIN argv, InvocationAssumption, inv \in Invocations, Known(n), Enough(n)
  PROVE  \A ph \in PhaseAt(n) : Sound(ph)
<1> DEFINE w == argv[n].word
           temp(k) == ParseTemp(argv[n + k])
           secs(k) == Durations(argv[n + k])
<1>1. \A m \in DOMAIN argv :
        /\ ParseTemp(argv[m]) \subseteq Int
        /\ \A s \in Durations(argv[m]) : s \in Nat /\ s > 0
  <2> TAKE m \in DOMAIN argv
  <2>1. /\ argv[m].word = "number" => argv[m].tenths \in Int
        /\ argv[m].word = "clock" =>
             argv[m].fields \in Seq(Int) /\ Len(argv[m].fields) \in {2, 3}
    BY DEF InvocationAssumption, argv
  <2> QED
    BY <2>1, TempType, DurationsType
<1>2. \A k \in 1..Arity[w] : n + k \in DOMAIN argv
  BY Arguments
<1>3. \A k \in 1..Arity[w] :
        temp(k) \subseteq Int /\ \A s \in secs(k) : s \in Nat /\ s > 0
  BY <1>1, <1>2
<1> HIDE DEF w, temp, secs
<1>4. CASE w = "ramp"
  <2>1. Arity[w] = 3 /\ 1 \in 1..3 /\ 2 \in 1..3 /\ 3 \in 1..3
    BY <1>4 DEF Arity
  <2>2. PhaseAt(n) = {[kind |-> IF a = b THEN "hold" ELSE "ramp", start |-> a, end |-> b,
                       secs |-> s] : a \in temp(1), b \in temp(2), s \in secs(3)}
    BY <1>4 DEF PhaseAt, w, temp, secs
  <2>3. temp(1) \subseteq Int /\ temp(2) \subseteq Int
          /\ \A s \in secs(3) : s \in Nat /\ s > 0
    BY <1>3, <2>1
  <2> QED
    BY <2>2, <2>3 DEF Sound, Phase
<1>5. CASE w = "hold"
  <2>1. Arity[w] = 2 /\ 1 \in 1..2 /\ 2 \in 1..2
    BY <1>5 DEF Arity
  <2>2. PhaseAt(n) = {[kind |-> "hold", start |-> a, end |-> a, secs |-> s]
                        : a \in temp(1), s \in secs(2)}
    BY <1>5 DEF PhaseAt, w, temp, secs
  <2>3. temp(1) \subseteq Int /\ \A s \in secs(2) : s \in Nat /\ s > 0
    BY <1>3, <2>1
  <2> QED
    BY <2>2, <2>3 DEF Sound, Phase
<1>6. CASE w = "pause"
  <2>1. Arity[w] = 1 /\ 1 \in 1..1
    BY <1>6 DEF Arity
  <2>2. PhaseAt(n) = {[kind |-> "pause", start |-> 0, end |-> 0, secs |-> s] : s \in secs(1)}
    BY <1>6 DEF PhaseAt, w, secs
  <2>3. \A s \in secs(1) : s \in Nat /\ s > 0
    BY <1>3, <2>1
  <2> QED
    BY <2>2, <2>3 DEF Sound, Phase
<1>7. CASE w = "temp"
  <2>1. Arity[w] = 1 /\ 1 \in 1..1
    BY <1>7 DEF Arity
  <2>2. PhaseAt(n) = {[kind |-> "temp", start |-> a, end |-> a, secs |-> 0] : a \in temp(1)}
    BY <1>7 DEF PhaseAt, w, temp
  <2>3. temp(1) \subseteq Int
    BY <1>3, <2>1
  <2> QED
    BY <2>2, <2>3 DEF Sound, Phase
<1>8. CASE w \notin {"ramp", "hold", "pause", "temp"}
  BY <1>8 DEF PhaseAt, w
<1> QED
  BY <1>4, <1>5, <1>6, <1>7, <1>8

-----------------------------------------------------------------------------
(* Types.                                                                  *)

Places == {"config", "parse", "wait", "done", "failed", "rejected", "alarm", "killed"}

\* What TypeOK says, and that the invocation is one.
TypeInv ==
  /\ inv \in Invocations /\ pc \in Places
  /\ i \in 1..(Len(argv) + 1)
  /\ phases \in Seq(Phase) /\ \A n \in DOMAIN phases : Sound(phases[n])
  /\ acts \in Seq(Order)

\* Where the reading stands is the next word, or behind the last one.
LEMMA ReadingWord ==
  ASSUME TypeInv, Reading PROVE i \in DOMAIN argv
<1>1. Len(argv) \in Nat /\ DOMAIN argv = 1..Len(argv)
  BY InvocationAssumption DEF InvocationAssumption, argv, TypeInv
<1> DEFINE len == Len(argv)
<1>2. i \in 1..(len + 1) /\ i <= len /\ len \in Nat
  BY <1>1 DEF TypeInv, Reading
<1> HIDE DEF len
<1>3. i \in 1..len
  BY <1>2
<1> QED
  BY <1>1, <1>3 DEF len

\* What the cooker is told at once is an order.
LEMMA ToldType ==
  ASSUME TypeInv, NEW n \in DOMAIN argv, Valid(n) PROVE Told(n) \subseteq Order
<1>1. \A ph \in PhaseAt(n) : ph \in Phase
  BY InvocationAssumption, PhaseSound DEF Valid, Sound, TypeInv
<1>2. \A ph \in Phase : ph.start \in Int
  BY DEF Phase
<1>3. \A ph \in PhaseAt(n) : Act("temp", ph.start) \in Order
  BY <1>1, <1>2 DEF Act, Order
<1>4. Act("off", 0) \in Order /\ Act("query", 0) \in Order
  BY DEF Act, Order
<1> QED
  BY <1>3, <1>4 DEF Told

\* The program starts with the types it keeps.
LEMMA TypeInit == Init => TypeInv
<1> SUFFICES ASSUME Init PROVE TypeInv
  OBVIOUS
<1>1. Len(argv) \in Nat
  BY InvocationAssumption DEF InvocationAssumption, argv, Init
<1>2. 1 \in 1..(Len(argv) + 1)
  BY <1>1
<1> QED
  BY <1>2 DEF Init, TypeInv, Places

\* Every step of main() keeps them.
LEMMA TypeStep == TypeInv /\ [Next]_vars => TypeInv'
<1> SUFFICES ASSUME TypeInv, [Next]_vars PROVE TypeInv'
  OBVIOUS
<1>1. inv' = inv
  BY DEF Next, vars, Configure, Immediate, Warm, Alarm, Collect, Reject, NoMemory, RunChain,
     Finish, Killed
<1>2. argv' = argv /\ Len(argv)' = Len(argv)
  BY <1>1 DEF argv
<1>3. pc' \in Places
  BY DEF TypeInv, Places, Next, vars, Configure, Immediate, Warm, Alarm, Collect, Reject,
     NoMemory, RunChain, ChainDone, Finish, Killed
<1>4. i' \in 1..(Len(argv) + 1)
  <2>1. CASE Immediate \/ Collect
    <3>1. Reading /\ Valid(i) /\ i' = After(i)
      BY <2>1 DEF Immediate, Collect
    <3>2. After(i) \in 2..(Len(argv) + 1)
      BY <3>1, ReadingWord, Arguments, InvocationAssumption DEF Valid, TypeInv
    <3>3. \A len : \A x \in 2..len : x \in 1..len
      OBVIOUS
    <3> QED
      BY <3>1, <3>2, <3>3, Zenon
  <2>2. CASE ~(Immediate \/ Collect)
    <3>1. i' = i
      BY <2>2 DEF Next, vars, Configure, Warm, Alarm, Reject, NoMemory, RunChain, Finish, Killed
    <3> QED
      BY <3>1 DEF TypeInv
  <2> QED
    BY <2>1, <2>2
<1>5. phases' \in Seq(Phase) /\ \A n \in DOMAIN phases' : Sound(phases'[n])
  <2>1. CASE Collect
    <3>1. PICK ph \in PhaseAt(i) : phases' = Append(phases, ph)
      BY <2>1 DEF Collect
    <3>2. Sound(ph)
      BY <2>1, ReadingWord, PhaseSound, InvocationAssumption DEF Collect, Valid, TypeInv
    <3>3. ph \in Phase
      BY <3>2 DEF Sound
    <3>4. phases' \in Seq(Phase)
      BY <3>1, <3>3 DEF TypeInv
    <3>5. \A n \in DOMAIN phases' :
            (n \in DOMAIN phases /\ phases'[n] = phases[n]) \/ phases'[n] = ph
      BY <3>1, <3>3 DEF TypeInv
    <3> QED
      BY <3>2, <3>4, <3>5 DEF TypeInv
  <2>2. CASE ~Collect
    <3>1. phases' = phases
      BY <2>2 DEF Next, vars, Configure, Immediate, Warm, Alarm, Reject, NoMemory, RunChain,
         Finish, Killed
    <3> QED
      BY <3>1 DEF TypeInv
  <2> QED
    BY <2>1, <2>2
<1>6. acts' \in Seq(Order)
  <2>1. CASE Immediate
    <3>1. i \in DOMAIN argv /\ Valid(i)
      BY <2>1, ReadingWord DEF Immediate
    <3>2. acts' = acts \/ \E a \in Told(i) : acts' = Append(acts, a)
      BY <2>1 DEF Immediate, Tell
    <3> QED
      BY <3>1, <3>2, ToldType DEF TypeInv
  <2>2. CASE Alarm \/ RunChain
    <3>1. Act("off", 0) \in Order /\ Act("chain", 0) \in Order
      BY DEF Act, Order
    <3>2. \/ acts' = Append(acts, Act("off", 0))
          \/ acts' = Append(acts, Act("chain", 0))
          \/ acts' = acts \o <<Act("chain", 0), Act("off", 0)>>
      BY <2>2 DEF Alarm, RunChain, ChainDone
    <3>3. \A a, b \in Order : Append(acts, a) \in Seq(Order) /\ acts \o <<a, b>> \in Seq(Order)
      BY DEF TypeInv
    <3> QED
      BY <3>1, <3>2, <3>3, Zenon
  <2>3. CASE ~(Immediate \/ Alarm \/ RunChain)
    <3>1. acts' = acts
      BY <2>3 DEF Next, vars, Configure, Warm, Collect, Reject, NoMemory, Finish, Killed
    <3> QED
      BY <3>1 DEF TypeInv
  <2> QED
    BY <2>1, <2>2, <2>3
<1> QED
  BY <1>1, <1>2, <1>3, <1>4, <1>5, <1>6 DEF TypeInv

\* The types always hold.
LEMMA Types == Spec => []TypeInv
<1> QED
  BY TypeInit, TypeStep, PTL DEF Spec

\* main() reads past no end of any line, and the chain it collects is one that Sousctl
\* assumes: its phases have temperatures, and times that are not zero.
THEOREM TypeCorrect == Spec => []TypeOK
<1>1. TypeInv => TypeOK
  BY DEF TypeInv, TypeOK, Places, Sound, Order
<1> QED
  BY <1>1, Types, PTL

-----------------------------------------------------------------------------
(* What the cooker is told.                                                *)

\* -n: for every command line, nothing reaches the cooker, from any of the places that
\* command it.
THEOREM DryRunIsSilent == Spec => []DryRunSilent
<1>1. Init => DryRunSilent
  BY DEF Init, DryRunSilent
<1>2. DryRunSilent /\ [Next]_vars => DryRunSilent'
  BY DEF DryRunSilent, Next, vars, Configure, Immediate, Tell, Warm, Alarm, Collect, Reject,
     NoMemory, RunChain, Finish, Killed
<1> QED
  BY <1>1, <1>2, PTL DEF Spec

\* The last power command in a sequence of orders.
Sent(s) == {n \in DOMAIN s : s[n].op # "query"}
PowerOf(s) == IF Sent(s) = {} THEN "none" ELSE s[Latest(Sent(s))].op
HasLast(s) == Sent(s) = {} \/ \E n \in Sent(s) : \A m \in Sent(s) : m <= n

\* The latest of some positions is the one that none is behind.
LEMMA LatestIs ==
  ASSUME NEW S \in SUBSET Int, NEW n \in S, \A m \in S : m <= n
  PROVE  Latest(S) = n
<1>1. \E x \in S : \A m \in S : m <= x
  OBVIOUS
<1>2. /\ Latest(S) \in S
      /\ \A m \in S : m <= Latest(S)
  BY <1>1 DEF Latest
<1>3. Latest(S) <= n /\ n <= Latest(S) /\ n \in Int /\ Latest(S) \in Int
  BY <1>2
<1> QED
  BY <1>3

\* Appending a power command makes it the last one.
LEMMA PowerAppended ==
  ASSUME NEW s \in Seq(Order), NEW a \in Order, a.op # "query"
  PROVE  PowerOf(Append(s, a)) = a.op /\ HasLast(Append(s, a))
<1> DEFINE t == Append(s, a)
           n == Len(s) + 1
<1>1. n \in Nat /\ n > 0 /\ DOMAIN t = 1..n /\ t[n] = a
  OBVIOUS
<1>2. Sent(t) \in SUBSET Int /\ n \in Sent(t) /\ \A m \in Sent(t) : m <= n
  <2> HIDE DEF t, n
  <2>1. Sent(t) \subseteq 1..n /\ n \in 1..n /\ t[n].op # "query"
    <3>1. \A x \in Nat : x > 0 => x \in 1..x
      OBVIOUS
    <3> QED
      BY <1>1, <3>1 DEF Sent
  <2>2. \A x \in Nat : \A m \in 1..x : m \in Int /\ m <= x
    OBVIOUS
  <2> QED
    BY <1>1, <2>1, <2>2, Zenon DEF Sent
<1>3. Latest(Sent(t)) = n
  <2> HIDE DEF t, n
  <2> QED
    BY <1>2, LatestIs
<1> HIDE DEF t, n
<1> QED
  BY <1>1, <1>2, <1>3 DEF PowerOf, HasLast, t

\* Appending a query leaves the last power command as it was.
LEMMA QueryAppended ==
  ASSUME NEW s \in Seq(Order), HasLast(s), NEW a \in Order, a.op = "query"
  PROVE  PowerOf(Append(s, a)) = PowerOf(s) /\ HasLast(Append(s, a))
<1> DEFINE t == Append(s, a)
           n == Len(s) + 1
<1>1. /\ n \in Nat /\ DOMAIN t = (DOMAIN s) \cup {n} /\ n \notin DOMAIN s /\ t[n] = a
      /\ \A m \in DOMAIN s : t[m] = s[m]
  OBVIOUS
<1>2. Sent(t) = Sent(s)
  <2> HIDE DEF t, n
  <2> QED
    BY <1>1 DEF Sent
<1> HIDE DEF t, n
<1>3. HasLast(t)
  BY <1>2 DEF HasLast
<1>4. CASE Sent(s) = {}
  BY <1>2, <1>3, <1>4 DEF PowerOf, t
<1>5. CASE Sent(s) # {}
  <2>1. Sent(s) \in SUBSET Int /\ Sent(s) \subseteq DOMAIN s
    BY DEF Sent
  <2>2. PICK x \in Sent(s) : \A y \in Sent(s) : y <= x
    BY <1>5 DEF HasLast
  <2>3. Latest(Sent(s)) \in DOMAIN s
    BY <2>1, <2>2, LatestIs
  <2> QED
    BY <1>1, <1>2, <1>3, <2>3 DEF PowerOf, t
<1> QED
  BY <1>4, <1>5

\* The words behind a command and before the next one are no commands.
LEMMA ArgumentWords ==
  ASSUME TypeInv, NEW n \in DOMAIN argv, Valid(n), NEW m \in DOMAIN argv, n < m, m < After(n)
  PROVE  argv[m].word \in {"number", "clock"}
<1> DEFINE w == argv[n].word
<1>1. n \in Nat /\ m \in Nat
  BY InvocationAssumption DEF InvocationAssumption, argv, TypeInv
<1>2. PICK a \in 0..3 : a = Arity[w]
  BY DEF Valid, Known, Arity
<1>3. m \in {n + 1, n + 2, n + 3} /\ m <= n + a
  BY <1>1, <1>2 DEF After
<1>4. \A x : ParseTemp(x) # {} => x.word = "number"
  BY DEF ParseTemp
<1>5. \A x : Durations(x) # {} => x.word \in {"number", "clock"}
  BY DEF Durations, ParseDuration
<1>6. CASE w \in {"status", "read", "off"}
  <2>1. a = 0
    BY <1>2, <1>6 DEF Arity
  <2> QED
    BY <1>1, <1>3, <2>1
<1>7. CASE w \in {"ramp", "hold", "pause", "temp"}
  <2>1. PhaseAt(n) # {}
    BY <1>7 DEF Valid
  <2>2. CASE w = "ramp"
    <3>1. ParseTemp(argv[n + 1]) # {} /\ ParseTemp(argv[n + 2]) # {} /\ Durations(argv[n + 3]) # {}
      BY <2>1, <2>2 DEF PhaseAt
    <3> QED
      BY <1>3, <1>4, <1>5, <3>1, Zenon
  <2>3. CASE w = "hold"
    <3>1. ParseTemp(argv[n + 1]) # {} /\ Durations(argv[n + 2]) # {}
      BY <2>1, <2>3 DEF PhaseAt
    <3>2. a = 2
      BY <1>2, <2>3 DEF Arity
    <3>3. m \in {n + 1, n + 2}
      BY <1>1, <1>3, <3>2
    <3> QED
      BY <1>4, <1>5, <3>1, <3>3, Zenon
  <2>4. CASE w \in {"pause", "temp"}
    <3>1. ParseTemp(argv[n + 1]) # {} \/ Durations(argv[n + 1]) # {}
      BY <2>1, <2>4 DEF PhaseAt
    <3>2. a = 1
      BY <1>2, <2>4 DEF Arity
    <3>3. m = n + 1
      BY <1>1, <1>3, <3>2
    <3> QED
      BY <1>4, <1>5, <3>1, <3>3, Zenon
  <2> QED
    BY <1>7, <2>2, <2>3, <2>4
<1>8. w \in {"status", "read", "off", "ramp", "hold", "pause", "temp"}
  BY DEF Valid, Known, Arity
<1> QED
  BY <1>6, <1>7, <1>8

\* What is read of the line when the command at i is.
LEMMA OrdersRead ==
  ASSUME TypeInv, i \in DOMAIN argv, Valid(i), inv' = inv, i' = After(i)
  PROVE  /\ Orders' = IF \/ argv[i].word = "off"
                         \/ argv[i].word = "temp" /\ \A m \in Heating : ~(m < i)
                        THEN Orders \cup {i} ELSE Orders
         /\ (\E m \in Heating : m < i)' <=> (\E m \in Heating : m < i) \/ i \in Heating
         /\ Orders \in SUBSET Int /\ i \in Int /\ \A n \in Orders : n < i
<1>1. argv' = argv /\ Heating' = Heating /\ DOMAIN argv \subseteq Nat /\ i \in Nat /\ i' \in Nat /\ i < i'
  BY InvocationAssumption DEF InvocationAssumption, argv, TypeInv, Heating, After, Valid, Known, Arity
<1>2. ASSUME NEW n \in DOMAIN argv
      PROVE  n < i' <=> (n < i \/ n = i \/ (n < i' /\ argv[n].word \in {"number", "clock"}))
  <2>1. n \in Nat
    BY <1>1
  <2>2. i < n /\ n < i' => argv[n].word \in {"number", "clock"}
    BY ArgumentWords
  <2> QED
    BY <1>1, <2>1, <2>2
<1>3. (\E m \in Heating : m < i)' <=> (\E m \in Heating : m < i) \/ i \in Heating
  BY <1>1, <1>2 DEF Heating
<1>4. Orders' = IF \/ argv[i].word = "off"
                   \/ argv[i].word = "temp" /\ \A m \in Heating : ~(m < i)
                  THEN Orders \cup {i} ELSE Orders
  <2>1. Orders' = {n \in DOMAIN argv :
                     /\ n < i'
                     /\ \/ argv[n].word = "off"
                        \/ argv[n].word = "temp" /\ \A m \in Heating : ~(m < n)}
    BY <1>1 DEF Orders
  <2> QED
    BY <1>1, <1>2, <2>1 DEF Orders
<1> QED
  BY <1>1, <1>3, <1>4 DEF Orders

\* The orders so far leave the cooker as the words read say, wherever main() is.
PowerKnown ==
  /\ HasLast(acts)
  /\ pc \in {"config", "parse"} => phases = <<>> <=> \A m \in Heating : ~(m < i)
  /\ pc = "wait" => phases = <<>> /\ \A m \in Heating : ~(m < i)
  /\ ~inv.dryRun =>
       /\ pc \in {"config", "parse", "wait", "failed", "rejected"} \/ (pc = "done" /\ phases = <<>>)
            => LastPower = LastOrder
       /\ pc = "alarm" \/ (pc = "done" /\ phases # <<>>) => LastPower = "off"

\* At the start nothing has been said.
LEMMA PowerInit == Init => PowerKnown
<1> SUFFICES ASSUME Init PROVE PowerKnown
  OBVIOUS
<1>1. DOMAIN argv \subseteq Nat \ {0} /\ i = 1
  BY InvocationAssumption DEF InvocationAssumption, argv, Init
<1>2. Orders = {} /\ \A m \in Heating : ~(m < i)
  BY <1>1 DEF Orders, Heating
<1> QED
  BY <1>2 DEF Init, PowerKnown, LastPower, LastOrder, HasLast, Sent

\* A command carried out at once is the last order read, or tells the cooker nothing.
LEMMA ImmediatePower ==
  ASSUME TypeInv, PowerKnown, Immediate  PROVE PowerKnown'
<1>1. /\ i \in DOMAIN argv /\ Valid(i) /\ AtOnce(i) /\ pc = "parse" /\ pc' \in {"parse", "wait"}
      /\ UNCHANGED <<inv, phases>> /\ i' = After(i) /\ acts \in Seq(Order)
      /\ argv' = argv
      /\ pc' = "wait" => argv[i].word = "temp"
  BY ReadingWord DEF Immediate, Reading, TypeInv, argv
<1>2. argv[i].word \in {"status", "read", "off"} \/ (argv[i].word = "temp" /\ phases = <<>>)
  BY <1>1 DEF AtOnce
<1>3. i \notin Heating
  BY <1>2 DEF Heating
<1>4. /\ (\E m \in Heating : m < i)' <=> (\E m \in Heating : m < i)
      /\ Orders' = (IF argv[i].word \in {"off", "temp"} THEN Orders \cup {i} ELSE Orders)
      /\ Orders \in SUBSET Int /\ i \in Int /\ \A n \in Orders : n < i
  BY <1>1, <1>2, <1>3, OrdersRead DEF PowerKnown
<1>5. /\ pc' = "parse" => phases' = <<>> <=> (\A m \in Heating : ~(m < i))'
      /\ pc' = "wait" => phases' = <<>> /\ (\A m \in Heating : ~(m < i))'
  BY <1>1, <1>2, <1>4 DEF PowerKnown
<1>6. CASE inv.dryRun
  BY <1>1, <1>5, <1>6 DEF PowerKnown, Immediate, Tell
<1>7. CASE ~inv.dryRun
  <2>1. PICK a \in Told(i) : acts' = Append(acts, a)
    BY <1>7 DEF Immediate, Tell
  <2>2. a \in Order
    BY <1>1, <2>1, ToldType
  <2>3. LastPower = PowerOf(acts) /\ LastPower' = PowerOf(acts')
    BY DEF LastPower, PowerOf, Sent
  <2>4. LastPower = LastOrder
    BY <1>1, <1>7 DEF PowerKnown
  <2>5. CASE argv[i].word \in {"status", "read"}
    <3>1. a.op = "query"
      BY <2>1, <2>5 DEF Told, Act
    <3>2. LastPower' = LastPower /\ HasLast(acts')
      BY <1>1, <2>1, <2>2, <2>3, <3>1, QueryAppended DEF PowerKnown
    <3>3. LastOrder' = LastOrder
      BY <1>1, <1>4, <2>5 DEF LastOrder
    <3> QED
      BY <1>1, <1>5, <2>4, <3>2, <3>3 DEF PowerKnown
  <2>6. CASE argv[i].word \in {"off", "temp"}
    <3>1. a.op = argv[i].word /\ a.op # "query"
      BY <2>1, <2>6 DEF Told, Act
    <3>2. LastPower' = argv[i].word /\ HasLast(acts')
      BY <1>1, <2>1, <2>2, <2>3, <3>1, PowerAppended
    <3>3. LastOrder' = argv[i].word
      <4>1. Orders' = Orders \cup {i}
        BY <1>4, <2>6
      <4>2. i \in Orders \cup {i} /\ (\A m \in Orders \cup {i} : m <= i)
            /\ Orders \cup {i} \in SUBSET Int
        BY <1>4
      <4>3. Latest(Orders \cup {i}) = i
        BY <4>2, LatestIs
      <4> QED
        BY <1>1, <4>1, <4>2, <4>3 DEF LastOrder
    <3> QED
      BY <1>1, <1>5, <3>2, <3>3 DEF PowerKnown
  <2> QED
    BY <1>2, <2>5, <2>6
<1> QED
  BY <1>6, <1>7

\* A command collected gives no order; there is a chain from its first phase on.
LEMMA CollectPower ==
  ASSUME TypeInv, PowerKnown, Collect  PROVE PowerKnown'
<1>1. /\ i \in DOMAIN argv /\ Valid(i) /\ ~AtOnce(i) /\ pc = "parse" /\ pc' = "parse"
      /\ UNCHANGED <<inv, acts>> /\ i' = After(i) /\ argv' = argv /\ phases \in Seq(Phase)
  BY ReadingWord DEF Collect, Reading, TypeInv, argv
<1>2. argv[i].word \in {"ramp", "hold", "pause"} \/ (argv[i].word = "temp" /\ phases # <<>>)
  BY <1>1 DEF AtOnce, Valid, Known, Arity
<1>3. i \in Heating \/ \E m \in Heating : m < i
  BY <1>1, <1>2 DEF Heating, PowerKnown
<1>4. Orders' = Orders /\ (\E m \in Heating : m < i)'
  BY <1>1, <1>2, <1>3, OrdersRead DEF PowerKnown
<1>5. phases' # <<>>
  <2>1. PICK ph \in PhaseAt(i) : phases' = Append(phases, ph)
    BY DEF Collect
  <2>2. ph \in Phase
    BY <1>1, <2>1, PhaseSound, InvocationAssumption DEF Valid, Sound, TypeInv
  <2> QED
    BY <1>1, <2>1, <2>2
<1>6. LastOrder' = LastOrder /\ LastPower' = LastPower
  BY <1>1, <1>4 DEF LastOrder, LastPower
<1> QED
  BY <1>1, <1>4, <1>5, <1>6 DEF PowerKnown

\* Every end of a chain but the second signal switches the cooker off, and no other step
\* tells it anything.
LEMMA PowerStep ==
  TypeInv /\ PowerKnown /\ [Next]_vars => PowerKnown'
<1> SUFFICES ASSUME TypeInv, PowerKnown, [Next]_vars PROVE PowerKnown'
  OBVIOUS
<1>1. LastPower = PowerOf(acts) /\ LastPower' = PowerOf(acts')
  BY DEF LastPower, PowerOf, Sent
<1>2. acts \in Seq(Order)
  BY DEF TypeInv
<1>3. CASE Alarm
  <2>1. Act("off", 0) \in Order /\ Act("off", 0).op = "off"
    BY DEF Act, Order
  <2>2. LastPower' = "off" /\ pc' = "alarm" /\ HasLast(acts')
    BY <1>1, <1>2, <1>3, <2>1, PowerAppended DEF Alarm
  <2> QED
    BY <2>2 DEF PowerKnown
<1>4. CASE RunChain
  <2>1. CASE ChainDone
    <3> DEFINE on == Act("chain", 0)
               off == Act("off", 0)
    <3>1. on \in Order /\ off \in Order /\ off.op = "off"
      BY DEF Act, Order
    <3> HIDE DEF on, off
    <3>2. acts \o <<on, off>> = Append(Append(acts, on), off) /\ Append(acts, on) \in Seq(Order)
      BY <1>2, <3>1
    <3>3. LastPower' = "off" /\ pc' \in {"done", "alarm"} /\ HasLast(acts')
      BY <1>1, <2>1, <3>1, <3>2, PowerAppended DEF ChainDone, on, off
    <3>4. phases' = phases /\ phases # <<>>
      BY <1>4 DEF RunChain
    <3> QED
      BY <3>3, <3>4 DEF PowerKnown
  <2>2. CASE ~ChainDone
    <3>1. Act("chain", 0) \in Order /\ Act("chain", 0).op = "chain"
      BY DEF Act, Order
    <3>2. HasLast(acts') /\ pc' = "killed"
      BY <1>2, <1>4, <2>2, <3>1, PowerAppended DEF RunChain
    <3> QED
      BY <3>2 DEF PowerKnown
  <2> QED
    BY <2>1, <2>2
<1>5. CASE Configure \/ Warm \/ Reject \/ NoMemory \/ Finish \/ Killed \/ UNCHANGED vars
  <2>1. /\ UNCHANGED <<inv, i, phases, acts>>
        /\ \/ pc' = pc \/ pc' = "killed"
           \/ pc \in {"config", "parse", "wait"} /\ pc' \in {"parse", "failed", "rejected"}
           \/ pc = "parse" /\ pc' = "done" /\ (inv.dryRun \/ phases = <<>>)
    BY <1>5 DEF Configure, Warm, Reject, NoMemory, Finish, Killed, Reading, vars
  <2>2. argv' = argv /\ Heating' = Heating /\ Orders' = Orders
    BY <2>1 DEF argv, Heating, Orders
  <2>3. LastOrder' = LastOrder /\ LastPower' = LastPower
    BY <2>1, <2>2 DEF LastOrder, LastPower
  <2> QED
    BY <2>1, <2>2, <2>3 DEF PowerKnown
<1> QED
  BY <1>3, <1>4, <1>5, ImmediatePower, CollectPower DEF Next

\* main(): for every command line, a run that is not killed leaves the cooker off after a
\* chain or an alarm, and otherwise as the last order said that was read, rejected lines
\* included.
THEOREM LeavesAsOrdered == Spec => []LeftAsOrdered
<1>1. TypeInv /\ PowerKnown => LeftAsOrdered
  BY DEF PowerKnown, LeftAsOrdered
<1>2. Spec => []PowerKnown
  BY PowerInit, PowerStep, Types, PTL DEF Spec
<1> QED
  BY <1>1, <1>2, Types, PTL

-----------------------------------------------------------------------------
(* The address.                                                            *)

\* The words of a row are where arp_line_match() looks for them, as in the table of
\* Linux, in what Windows prints or in "ip at mac", and the rest of an uninitialised
\* buffer is no MAC.
LaidOut(row) ==
  /\ row.columns[1] = row.ip /\ row.mac # "rubbish"
  /\ \/ Len(row.columns) >= 4 /\ row.columns[4] = row.mac
     \/ Len(row.columns) \in 2..3 /\ row.dashes /\ row.columns[2] = row.mac
     \/ Len(row.columns) = 3 /\ ~row.dashes /\ row.paren = NoText /\ row.at = row.mac

Layouts == \A v \in Invocations : \A n \in DOMAIN v.arp : LaidOut(v.arp[n])

\* In such a row only its own MAC is found, and it gives its own address.
LEMMA RowMatches ==
  ASSUME NEW row, LaidOut(row), NEW mac
  PROVE  ArpLineMatch(row, mac) = IF row.mac = mac THEN {row.ip} ELSE {}
<1>1. CASE Len(row.columns) >= 4 /\ row.columns[4] = row.mac
  BY <1>1 DEF LaidOut, ArpLineMatch
<1>2. CASE Len(row.columns) \in 2..3 /\ row.dashes /\ row.columns[2] = row.mac
  <2>0. \A n \in 2..3 : n >= 2 /\ ~ (n >= 4)
    OBVIOUS
  <2>1. Len(row.columns) >= 2 /\ ~ (Len(row.columns) >= 4)
    BY <1>2, <2>0, Zenon
  <2> QED
    BY <1>2, <2>1 DEF LaidOut, ArpLineMatch
<1>3. CASE Len(row.columns) = 3 /\ ~row.dashes /\ row.paren = NoText /\ row.at = row.mac
  BY <1>3 DEF LaidOut, ArpLineMatch
<1> QED
  BY <1>1, <1>2, <1>3 DEF LaidOut

\* resolve_mac() gives the address of a row with the MAC, if it gives any.
LEMMA MacResolved ==
  ASSUME NEW rows, DOMAIN rows \subseteq Nat, \A n \in DOMAIN rows : LaidOut(rows[n]), NEW mac
  PROVE  ResolveMac(rows, mac) \subseteq
           {rows[n].ip : n \in {m \in DOMAIN rows : rows[m].mac = mac}}
<1> DEFINE hits == {n \in DOMAIN rows : ArpLineMatch(rows[n], mac) # {}}
<1>1. CASE hits = {}
  BY <1>1 DEF ResolveMac
<1>2. CASE hits # {}
  <2>1. Earliest(hits) \in hits
    BY <1>2, EarliestIs
  <2> DEFINE n == Earliest(hits)
  <2>2. n \in DOMAIN rows /\ rows[n].mac = mac /\ ArpLineMatch(rows[n], mac) = {rows[n].ip}
    BY <2>1, RowMatches
  <2> HIDE DEF n
  <2>3. ResolveMac(rows, mac) = ArpLineMatch(rows[n], mac)
    BY <1>2 DEF ResolveMac, n
  <2> QED
    BY <2>2, <2>3
<1> QED
  BY <1>1, <1>2

\* What the configuration takes for the address is one that it may be.
LEMMA AddressTaken ==
  ASSUME Layouts, inv \in Invocations, AddressOfCooker, Configure
  PROVE  AddressOfCooker'
<1> DEFINE mac == Setting(inv.config, "mac")
           ip == Setting(inv.config, "ip")
           rows == inv.arp
           Mine == {rows[n].ip : n \in {m \in DOMAIN rows : rows[m].mac = mac}}
<1>1. DOMAIN rows \subseteq Nat /\ \A n \in DOMAIN rows : LaidOut(rows[n])
  BY InvocationAssumption DEF InvocationAssumption, Layouts
<1>2. ResolveMac(rows, mac) \subseteq Mine
  BY <1>1, MacResolved
<1>3. ResolveMac(rows, "rubbish") = {}
  <2>1. ResolveMac(rows, "rubbish") \subseteq
          {rows[n].ip : n \in {m \in DOMAIN rows : rows[m].mac = "rubbish"}}
    BY <1>1, MacResolved
  <2> QED
    BY <1>1, <2>1 DEF LaidOut
<1>4. Addresses \subseteq {inv.override, ip} \cup Mine
  <2> HIDE DEF Mine
  <2>1. \A ours \in Normalised(mac) :
          (IF ResolveMac(rows, ours) = {} THEN {ip} ELSE ResolveMac(rows, ours))
            \subseteq {ip} \cup Mine
    BY <1>2, <1>3 DEF Normalised
  <2> QED
    BY <2>1 DEF Addresses
<1>5. address' \in {NoText, inv.override, ip} \cup Mine
  <2>1. CASE address' \in Addresses
    BY <1>4, <2>1
  <2>2. CASE UNCHANGED address
    <3>1. address' = address
      BY <2>2
    <3> QED
      BY <3>1 DEF AddressOfCooker
  <2>3. address' \in Addresses \/ UNCHANGED address
    BY DEF Configure
  <2> QED
    BY <2>1, <2>2, <2>3, Zenon
<1>6. inv' = inv
  BY DEF Configure
<1> HIDE DEF mac, ip, rows
<1> QED
  BY <1>5, <1>6, Zenon DEF AddressOfCooker, mac, ip, rows

\* Whatever the config file and the ARP tables hold, in the layouts that the code was
\* written for: the address used is that of -i, of the file, or of a row with its MAC.
THEOREM AddressIsCookers == ASSUME Layouts PROVE Spec => []AddressOfCooker
<1>1. Init => AddressOfCooker
  BY DEF Init, AddressOfCooker
<1>2. inv \in Invocations /\ AddressOfCooker /\ [Next]_vars => AddressOfCooker'
  <2> SUFFICES ASSUME inv \in Invocations, AddressOfCooker, [Next]_vars
               PROVE  AddressOfCooker'
    OBVIOUS
  <2>1. CASE Configure
    BY <2>1, AddressTaken
  <2>2. CASE ~Configure
    <3>1. UNCHANGED <<inv, address>>
      BY <2>2 DEF Next, vars, Immediate, Warm, Alarm, Collect, Reject, NoMemory, RunChain,
         Finish, Killed
    <3> QED
      BY <3>1 DEF AddressOfCooker
  <2> QED
    BY <2>1, <2>2
<1>3. TypeInv => inv \in Invocations
  BY DEF TypeInv
<1> QED
  BY <1>1, <1>2, <1>3, Types, PTL DEF Spec

-----------------------------------------------------------------------------
(* The commands of a line, in their order.                                 *)

\* Another number behind those of a set is the last one of them.
LEMMA RankGrows ==
  ASSUME NEW S \in SUBSET Nat, IsFiniteSet(S), NEW x \in Nat, \A n \in S : n < x
  PROVE  /\ Cardinality(S) \in Nat
         /\ Cardinality(S \cup {x}) = Cardinality(S) + 1
         /\ Rank(x, S \cup {x}) = Cardinality(S) + 1
         /\ \A n \in S : /\ Rank(n, S \cup {x}) = Rank(n, S)
                        /\ Rank(n, S) \in 1..Cardinality(S)
<1>1. x \notin S
  <2>1. ~ (x < x)
    OBVIOUS
  <2> QED
    BY <2>1, Zenon
<1>2. Cardinality(S) \in Nat /\ Cardinality(S \cup {x}) = Cardinality(S) + 1
  BY <1>1, FS_AddElement, FS_CardinalityType
<1>3. {m \in S \cup {x} : m <= x} = S \cup {x}
  <2>1. \A m \in S \cup {x} : m <= x
    OBVIOUS
  <2> QED
    BY <2>1
<1>4. ASSUME NEW n \in S
      PROVE  Rank(n, S \cup {x}) = Rank(n, S) /\ Rank(n, S) \in 1..Cardinality(S)
  <2> DEFINE U == {m \in S : m <= n}
  <2>1. {m \in S \cup {x} : m <= n} = U
    <3>1. ~ (x <= n) /\ n \in Nat
      OBVIOUS
    <3> QED
      BY <3>1
  <2>2. IsFiniteSet(U) /\ Cardinality(U) <= Cardinality(S) /\ Cardinality(U) \in Nat
    BY FS_Subset, FS_CardinalityType
  <2>3. n \in U
    <3>1. n <= n
      OBVIOUS
    <3> QED
      BY <3>1
  <2>4. Cardinality(U) # 0
    <3> HIDE DEF U
    <3> QED
      BY <2>2, <2>3, FS_EmptySet
  <2> HIDE DEF U
  <2>5. Cardinality(U) \in 1..Cardinality(S)
    BY <1>2, <2>2, <2>4
  <2> QED
    BY <2>1, <2>5 DEF Rank, U
<1> QED
  BY <1>2, <1>3, <1>4 DEF Rank

\* Append() leaves what there is.
LEMMA AppendKeeps ==
  ASSUME NEW D, NEW s \in Seq(D), NEW e \in D
  PROVE  /\ Len(Append(s, e)) = Len(s) + 1 /\ Append(s, e)[Len(Append(s, e))] = e
         /\ \A k \in 1..Len(s) : Append(s, e)[k] = s[k]
OBVIOUS

\* The line does not change, nor what its words mean.
LEMMA LineKept ==
  ASSUME inv' = inv
  PROVE  /\ argv' = argv /\ Heating' = Heating /\ Heads' = Heads
         /\ \A n : (Valid(n) <=> Valid(n)') /\ After(n)' = After(n)
         /\ \A n : PhaseAt(n)' = PhaseAt(n) /\ Told(n)' = Told(n)
         /\ \A S : InChain(S)' = InChain(S) /\ Early(S)' = Early(S)
<1>1. argv' = argv
  BY DEF argv
<1>2. \A n : PhaseAt(n)' = PhaseAt(n)
  BY <1>1 DEF PhaseAt
<1>3. \A n : After(n)' = After(n) /\ (Enough(n) <=> Enough(n)') /\ (Known(n) <=> Known(n)')
  BY <1>1 DEF After, Enough, Known
<1>4. \A n : Valid(n) <=> Valid(n)'
  BY <1>1, <1>2, <1>3 DEF Valid
<1>5. \A n : Told(n)' = Told(n)
  BY <1>1, <1>2 DEF Told
<1>6. Heating' = Heating
  BY <1>1 DEF Heating
<1>7. \A S : InChain(S)' = InChain(S) /\ Early(S)' = Early(S)
  BY <1>1, <1>6 DEF InChain, Early
<1>8. Heads' = Heads
  BY <1>1, <1>3, <1>4 DEF Heads
<1> QED
  BY <1>1, <1>2, <1>3, <1>4, <1>5, <1>6, <1>7, <1>8, Zenon

\* The commands read so far start at the words of R, one right behind the other, and
\* the next one would start at i; whoever reads the line comes along here.
Read(R) ==
  /\ \A n \in R : Valid(n) /\ After(n) <= i
  /\ \A n \in 1..(i - 1) : n \in R <=> n = 1 \/ \E m \in R : n = After(m)
  /\ i = 1 \/ \E m \in R : i = After(m)
  /\ \A S \in Heads : S \cap (1..(i - 1)) = R

\* A command ends behind its first word.
LEMMA AfterIs ==
  ASSUME TypeInv, NEW n \in DOMAIN argv, Valid(n)
  PROVE  n \in Nat /\ After(n) \in Nat /\ n < After(n) /\ After(n) <= Len(argv) + 1
<1>1. n \in Nat
  BY InvocationAssumption DEF InvocationAssumption, argv, TypeInv
<1>2. Arity[argv[n].word] \in Nat
  BY DEF Valid, Known, Arity
<1>3. After(n) = n + 1 + Arity[argv[n].word] /\ After(n) <= Len(argv) + 1
  BY DEF Valid, Enough, After
<1> QED
  BY <1>1, <1>2, <1>3

\* Every reading of the line has a command at i, if there is a word.
LEMMA AllReadHere ==
  ASSUME TypeInv, NEW R \in SUBSET DOMAIN argv, Read(R), i \in DOMAIN argv, NEW S \in Heads
  PROVE  i \in S
<1>1. /\ \A n \in DOMAIN argv : n \in S <=> n = 1 \/ \E m \in S : n = After(m)
      /\ R \subseteq S
  BY DEF Heads, Read
<1> QED
  BY <1>1 DEF Read

\* And none has one inside the command at i.
LEMMA NoneInside ==
  ASSUME TypeInv, NEW R \in SUBSET DOMAIN argv, Read(R), i \in DOMAIN argv, Valid(i),
         NEW S \in Heads
  PROVE  \A n \in S : ~ (i < n /\ n < After(i))
<1> DEFINE Inside == {n \in S : i < n /\ n < After(i)}
<1>1. S \subseteq DOMAIN argv /\ DOMAIN argv \subseteq Nat \ {0} /\ i \in Nat
  BY InvocationAssumption DEF Heads, InvocationAssumption, argv, TypeInv
<1>2. SUFFICES ASSUME Inside # {} PROVE FALSE
  OBVIOUS
<1>3. PICK n \in Inside : \A m \in Inside : n <= m
  BY <1>1, <1>2, EarliestIs
<1>4. n \in S /\ i < n /\ n < After(i) /\ n \in Nat
  BY <1>1, <1>3
<1>5. PICK m \in S : n = After(m)
  <2>1. i > 0 /\ n # 1
    BY <1>1, <1>4
  <2> QED
    BY <1>1, <1>4, <2>1 DEF Heads
<1>6. Valid(m) /\ m \in Nat /\ m < n
  <2>1. m \in DOMAIN argv /\ Valid(m)
    BY <1>1 DEF Heads
  <2> QED
    BY <1>5, <2>1, AfterIs
<1>7. CASE m < i
  <2>1. m \in 1..(i - 1)
    BY <1>1, <1>6, <1>7
  <2>2. m \in R
    BY <2>1 DEF Read
  <2>3. n <= i
    BY <1>5, <2>2 DEF Read
  <2> QED
    BY <1>1, <1>4, <2>3
<1>8. CASE m = i
  <2>1. n < n
    BY <1>4, <1>5, <1>8
  <2> QED
    BY <1>4, <2>1
<1>9. CASE i < m
  <2>1. m < After(i)
    <3>1. After(i) \in Nat
      BY AfterIs
    <3> QED
      BY <1>4, <1>6, <3>1
  <2>2. n <= m
    BY <1>3, <1>9, <2>1
  <2> QED
    BY <1>4, <1>6, <2>2
<1> QED
  BY <1>1, <1>6, <1>7, <1>8, <1>9

\* The command at i is read.
LEMMA ReadOn ==
  ASSUME TypeInv, NEW R \in SUBSET DOMAIN argv, Read(R), i \in DOMAIN argv, Valid(i),
         NEW T, T = R \cup {i}, inv' = inv, i' = After(i)
  PROVE  Read(T)'
<1>1. DOMAIN argv \subseteq Nat \ {0} /\ i \in Nat /\ i > 0
  BY InvocationAssumption DEF InvocationAssumption, argv, TypeInv
<1>2. After(i) \in Nat /\ i < After(i) /\ After(i) <= Len(argv) + 1
  BY AfterIs
<1>3. \A n \in R : n \in Nat /\ Valid(n) /\ After(n) \in Nat /\ n < After(n) /\ After(n) <= i
                    /\ n < i
  <2> TAKE n \in R
  <2>1. Valid(n) /\ After(n) <= i
    BY DEF Read
  <2>2. n \in Nat /\ After(n) \in Nat /\ n < After(n)
    BY <2>1, AfterIs
  <2> QED
    BY <1>1, <2>1, <2>2
<1>4. \A n \in T : Valid(n) /\ After(n) <= After(i)
  BY <1>1, <1>2, <1>3
<1>5. \A n \in 1..(After(i) - 1) : n \in T <=> n = 1 \/ \E m \in T : n = After(m)
  <2> TAKE n \in 1..(After(i) - 1)
  <2>1. CASE n < i
    <3>1. n \in 1..(i - 1) /\ n # i /\ n # After(i)
      BY <1>1, <1>2, <2>1
    <3>2. n \in R <=> n = 1 \/ \E m \in R : n = After(m)
      BY <3>1 DEF Read
    <3> QED
      BY <3>1, <3>2
  <2>2. CASE n = i
    BY <2>2 DEF Read
  <2>3. CASE i < n
    <3>1. n # 1 /\ n # i /\ n # After(i) /\ n \notin R /\ \A m \in R : n # After(m)
      BY <1>1, <1>2, <1>3, <2>3
    <3> QED
      BY <3>1
  <2> QED
    BY <1>1, <1>2, <2>1, <2>2, <2>3
<1>6. \A S \in Heads : S \cap (1..(After(i) - 1)) = T
  <2> TAKE S \in Heads
  <2>1. i \in S /\ \A n \in S : ~ (i < n /\ n < After(i))
    BY AllReadHere, NoneInside
  <2>2. S \cap (1..(i - 1)) = R
    BY DEF Read
  <2>3. ASSUME NEW n \in S \cap (1..(After(i) - 1)) PROVE n \in T
    <3>1. n \in 1..(i - 1) \/ n = i \/ (i < n /\ n < After(i))
      BY <1>1, <1>2
    <3> QED
      BY <2>1, <2>2, <3>1
  <2>4. ASSUME NEW n \in T PROVE n \in S \cap (1..(After(i) - 1))
    <3>1. i \in 1..(After(i) - 1) /\ \A m \in 1..(i - 1) : m \in 1..(After(i) - 1)
      BY <1>1, <1>2
    <3> QED
      BY <2>1, <2>2, <3>1
  <2> QED
    BY <2>3, <2>4
<1>7. /\ Heads' = Heads
      /\ \A n : (Valid(n) <=> Valid(n)') /\ After(n)' = After(n)
  BY LineKept
<1> QED
  BY <1>4, <1>5, <1>6, <1>7 DEF Read

\* When nothing is left, what was read is the line.
LEMMA ReadAll ==
  ASSUME TypeInv, NEW R \in SUBSET DOMAIN argv, Read(R), i > Len(argv)
  PROVE  R \in Heads
<1>1. DOMAIN argv = 1..(i - 1)
  <2>1. Len(argv) \in Nat /\ DOMAIN argv = 1..Len(argv)
    BY InvocationAssumption DEF InvocationAssumption, argv, TypeInv
  <2>2. i = Len(argv) + 1
    BY <2>1 DEF TypeInv
  <2> QED
    BY <2>1, <2>2
<1> QED
  BY <1>1 DEF Heads, Read

\* What follows of the phases and the orders that main() has from the commands read.
Progress(R) ==
  /\ PhasesOf(InChain(R))
  /\ IF inv.dryRun THEN acts = <<>> ELSE OrdersOf(Early(R)) /\ Len(acts) = Cardinality(Early(R))

\* There is a chain if a command was for it.
LEMMA ChainBegun ==
  ASSUME TypeInv, NEW R \in SUBSET DOMAIN argv, PhasesOf(InChain(R))
  PROVE  /\ IsFiniteSet(InChain(R)) /\ IsFiniteSet(Early(R))
         /\ phases = <<>> <=> R \cap Heating = {}
<1>1. IsFiniteSet(DOMAIN argv)
  BY InvocationAssumption, FS_Interval DEF InvocationAssumption, argv, TypeInv
<1>2. InChain(R) \subseteq DOMAIN argv /\ Early(R) \subseteq DOMAIN argv
  BY DEF InChain, Early
<1>3. IsFiniteSet(InChain(R)) /\ IsFiniteSet(Early(R))
  BY <1>1, <1>2, FS_Subset
<1>4. phases = <<>> <=> Len(phases) = 0
  BY DEF TypeInv
<1>5. Cardinality(InChain(R)) = 0 <=> InChain(R) = {}
  BY <1>3, FS_EmptySet
<1>6. InChain(R) = {} <=> R \cap Heating = {}
  BY DEF InChain
<1> QED
  BY <1>3, <1>4, <1>5, <1>6 DEF PhasesOf

\* The command at i goes on with the chain, or it does not.
LEMMA ChainGrows ==
  ASSUME TypeInv, NEW R \in SUBSET DOMAIN argv, Read(R), PhasesOf(InChain(R)),
         i \in DOMAIN argv, Valid(i), NEW T, T = R \cup {i}
  PROVE  /\ \A n \in R : n \in Nat /\ n < i
         /\ AtOnce(i) => InChain(T) = InChain(R) /\ Early(T) = Early(R) \cup {i}
         /\ ~AtOnce(i) => InChain(T) = InChain(R) \cup {i} /\ Early(T) = Early(R)
<1>1. i \in Nat
  BY DEF TypeInv, InvocationAssumption
<1>2. \A n \in R : n \in Nat /\ n < i
  <2> TAKE n \in R
  <2>1. n \in Nat /\ After(n) \in Nat /\ n < After(n) /\ After(n) <= i
    BY AfterIs DEF Read
  <2> QED
    BY <1>1, <2>1
<1>3. \A n \in R : ~ (i < n) /\ n # i
  BY <1>1, <1>2
<1>4. \A n \in R : n \in InChain(T) <=> n \in InChain(R)
  BY <1>3 DEF InChain
<1>5. i \in InChain(T) <=> ~AtOnce(i)
  <2>1. argv[i].word \in {"ramp", "hold", "pause", "temp", "status", "read", "off"}
    BY DEF Valid, Known, Arity
  <2>2. phases = <<>> <=> R \cap Heating = {}
    BY ChainBegun
  <2>3. (\E m \in T \cap Heating : m < i) <=> R \cap Heating # {}
    <3>1. ~ (i < i)
      BY <1>1
    <3> QED
      BY <1>2, <3>1
  <2>4. i \in Heating <=> argv[i].word \in {"ramp", "hold", "pause"}
    BY DEF Heating
  <2> QED
    BY <2>1, <2>2, <2>3, <2>4 DEF InChain, AtOnce
<1>6. InChain(T) \subseteq T /\ InChain(R) \subseteq R
  BY DEF InChain
<1> QED
  BY <1>2, <1>3, <1>4, <1>5, <1>6 DEF Early

Busy == {"config", "parse", "wait"}

\* While main() is at it, there is what it has read, and what it has done is so.
Following ==
  /\ pc \in Busy => \E R \in SUBSET DOMAIN argv : Read(R) /\ Progress(R)
  /\ AsWritten

\* At the start nothing is read.
LEMMA FollowInit == Init => Following
<1> SUFFICES ASSUME Init PROVE Following
  OBVIOUS
<1>1. InChain({}) = {} /\ Early({}) = {} /\ Cardinality({}) = 0
  BY FS_EmptySet DEF InChain, Early
<1>2. 1..(i - 1) = {} /\ i = 1 /\ phases = <<>> /\ Len(phases) = 0 /\ acts = <<>> /\ Len(acts) = 0
  BY DEF Init
<1>3. Read({})
  BY <1>2 DEF Read
<1>4. Progress({})
  BY <1>1, <1>2 DEF Progress, PhasesOf, OrdersOf
<1> QED
  BY <1>3, <1>4 DEF Following, AsWritten, Init

\* What was read remains so as long as nothing else is read.
LEMMA ProgressKept ==
  ASSUME NEW R \in SUBSET DOMAIN argv, Read(R), Progress(R), UNCHANGED <<inv, i, phases, acts>>
  PROVE  R \in SUBSET DOMAIN argv' /\ Read(R)' /\ Progress(R)'
<1>1. /\ argv' = argv /\ Heads' = Heads
      /\ \A n : (Valid(n) <=> Valid(n)') /\ After(n)' = After(n)
      /\ \A n : PhaseAt(n)' = PhaseAt(n) /\ Told(n)' = Told(n)
      /\ InChain(R)' = InChain(R) /\ Early(R)' = Early(R)
  BY LineKept
<1>2. i' = i /\ phases' = phases /\ acts' = acts /\ inv' = inv
  OBVIOUS
<1>3. Read(R)'
  BY <1>1, <1>2 DEF Read
<1>4. Progress(R)'
  BY <1>1, <1>2 DEF Progress, PhasesOf, OrdersOf
<1> QED
  BY <1>1, <1>3, <1>4

\* A command that is carried out at once.
LEMMA ImmediateFollows ==
  ASSUME TypeInv, Following, Immediate
  PROVE  Following'
<1>1. i \in DOMAIN argv /\ Valid(i) /\ AtOnce(i) /\ i' = After(i) /\ pc = "parse"
  BY ReadingWord DEF Immediate, Reading
<1>2. PICK R \in SUBSET DOMAIN argv : Read(R) /\ Progress(R)
  BY <1>1 DEF Following, Busy
<1>3. PICK T : T = R \cup {i}
  OBVIOUS
<1>4. inv' = inv /\ phases' = phases
  BY DEF Immediate
<1>5. Read(T)' /\ T \in SUBSET DOMAIN argv'
  BY <1>1, <1>2, <1>3, <1>4, ReadOn, LineKept
<1>6. PhasesOf(InChain(R)) /\ IsFiniteSet(Early(R))
  BY <1>2, ChainBegun DEF Progress
<1>7. /\ \A n \in R : n \in Nat /\ n < i
      /\ InChain(T) = InChain(R) /\ Early(T) = Early(R) \cup {i}
  BY <1>1, <1>2, <1>3, <1>6, ChainGrows
<1>8. /\ InChain(T)' = InChain(T) /\ Early(T)' = Early(T)
      /\ \A n : PhaseAt(n)' = PhaseAt(n) /\ Told(n)' = Told(n)
  BY <1>4, LineKept
<1>9. PhasesOf(InChain(T))'
  BY <1>4, <1>6, <1>7, <1>8 DEF PhasesOf
<1>10. Progress(T)'
  <2>1. CASE inv.dryRun
    <3>1. acts = <<>> /\ acts' = acts
      BY <1>2, <2>1 DEF Progress, Immediate, Tell
    <3> QED
      BY <1>4, <1>9, <2>1, <3>1 DEF Progress
  <2>2. CASE ~inv.dryRun
    <3>1. PICK a \in Told(i) : acts' = Append(acts, a)
      BY <2>2 DEF Immediate, Tell
    <3>2. a \in Order /\ acts \in Seq(Order)
      BY <1>1, <3>1, ToldType DEF TypeInv
    <3>3. Early(R) \in SUBSET Nat /\ i \in Nat /\ \A n \in Early(R) : n < i
      BY <1>1, <1>7, AfterIs DEF Early
    <3>4. Len(acts) = Cardinality(Early(R)) /\ \A n \in Early(R) : acts[Rank(n, Early(R))] \in Told(n)
      BY <1>2, <2>2 DEF Progress, OrdersOf
    <3>5. /\ Len(acts') = Cardinality(Early(T))
          /\ acts'[Rank(i, Early(T))] = a
          /\ \A n \in Early(R) : acts'[Rank(n, Early(T))] = acts[Rank(n, Early(R))]
      <4>1. Len(acts) = Cardinality(Early(R))
        BY <3>4
      <4>2. /\ Len(acts') = Len(acts) + 1 /\ acts'[Len(acts')] = a
            /\ \A k \in 1..Len(acts) : acts'[k] = acts[k]
        BY <3>1, <3>2, AppendKeeps
      <4>3. /\ Cardinality(Early(R) \cup {i}) = Cardinality(Early(R)) + 1
            /\ Rank(i, Early(R) \cup {i}) = Cardinality(Early(R)) + 1
            /\ \A n \in Early(R) : /\ Rank(n, Early(R) \cup {i}) = Rank(n, Early(R))
                              /\ Rank(n, Early(R)) \in 1..Cardinality(Early(R))
        BY <1>6, <3>3, RankGrows
      <4> QED
        BY <1>7, <4>1, <4>2, <4>3
    <3>6. \A n \in Early(T) : acts'[Rank(n, Early(T))] \in Told(n)
      BY <1>7, <3>1, <3>4, <3>5
    <3> QED
      BY <1>4, <1>8, <1>9, <2>2, <3>5, <3>6 DEF Progress, OrdersOf
  <2> QED
    BY <2>1, <2>2
<1>11. pc' \in {"parse", "wait"}
  BY DEF Immediate
<1> QED
  BY <1>5, <1>10, <1>11 DEF Following, AsWritten, Busy

\* A command that is collected.
LEMMA CollectFollows ==
  ASSUME TypeInv, Following, Collect
  PROVE  Following'
<1>1. i \in DOMAIN argv /\ Valid(i) /\ ~AtOnce(i) /\ i' = After(i) /\ pc = "parse" /\ pc' = pc
  BY ReadingWord DEF Collect, Reading
<1>2. PICK R \in SUBSET DOMAIN argv : Read(R) /\ Progress(R)
  BY <1>1 DEF Following, Busy
<1>3. PICK T : T = R \cup {i}
  OBVIOUS
<1>4. inv' = inv /\ acts' = acts
  BY DEF Collect
<1>5. Read(T)' /\ T \in SUBSET DOMAIN argv'
  BY <1>1, <1>2, <1>3, <1>4, ReadOn, LineKept
<1>6. PhasesOf(InChain(R)) /\ IsFiniteSet(InChain(R))
  BY <1>2, ChainBegun DEF Progress
<1>7. /\ \A n \in R : n \in Nat /\ n < i
      /\ InChain(T) = InChain(R) \cup {i} /\ Early(T) = Early(R)
  BY <1>1, <1>2, <1>3, <1>6, ChainGrows
<1>8. /\ InChain(T)' = InChain(T) /\ Early(T)' = Early(T)
      /\ \A n : PhaseAt(n)' = PhaseAt(n) /\ Told(n)' = Told(n)
  BY <1>4, LineKept
<1>9. PhasesOf(InChain(T))'
  <2>1. PICK ph \in PhaseAt(i) : phases' = Append(phases, ph)
    BY DEF Collect
  <2>2. ph \in Phase /\ phases \in Seq(Phase)
    BY <1>1, <2>1, PhaseSound, InvocationAssumption DEF Valid, Sound, TypeInv, AtOnce
  <2>3. InChain(R) \in SUBSET Nat /\ i \in Nat /\ \A n \in InChain(R) : n < i
    BY <1>1, <1>7, AfterIs DEF InChain
  <2>4. /\ Len(phases') = Cardinality(InChain(T))
        /\ phases'[Rank(i, InChain(T))] = ph
        /\ \A n \in InChain(R) : phases'[Rank(n, InChain(T))] = phases[Rank(n, InChain(R))]
    <3>1. Len(phases) = Cardinality(InChain(R))
      BY <1>6 DEF PhasesOf
    <3>2. /\ Len(phases') = Len(phases) + 1 /\ phases'[Len(phases')] = ph
          /\ \A k \in 1..Len(phases) : phases'[k] = phases[k]
      BY <2>1, <2>2, AppendKeeps
    <3>3. /\ Cardinality(InChain(R) \cup {i}) = Cardinality(InChain(R)) + 1
          /\ Rank(i, InChain(R) \cup {i}) = Cardinality(InChain(R)) + 1
          /\ \A n \in InChain(R) : /\ Rank(n, InChain(R) \cup {i}) = Rank(n, InChain(R))
                            /\ Rank(n, InChain(R)) \in 1..Cardinality(InChain(R))
      BY <1>6, <2>3, RankGrows
    <3> QED
      BY <1>7, <3>1, <3>2, <3>3
  <2>5. \A n \in InChain(T) : phases'[Rank(n, InChain(T))] \in PhaseAt(n)
    BY <1>6, <1>7, <2>1, <2>4 DEF PhasesOf
  <2> QED
    BY <1>8, <2>4, <2>5 DEF PhasesOf
<1>10. Progress(T)'
  BY <1>2, <1>4, <1>7, <1>8, <1>9 DEF Progress, OrdersOf
<1> QED
  BY <1>1, <1>5, <1>10 DEF Following, AsWritten, Busy

\* Two more behind a sequence.
LEMMA TwoBehind ==
  ASSUME NEW D, NEW s \in Seq(D), NEW a \in D, NEW b \in D
  PROVE  /\ Len(s \o <<a, b>>) = Len(s) + 2
         /\ (s \o <<a, b>>)[Len(s) + 1] = a /\ (s \o <<a, b>>)[Len(s) + 2] = b
         /\ \A k \in 1..Len(s) : (s \o <<a, b>>)[k] = s[k]
<1>1. s \o <<a, b>> = Append(Append(s, a), b) /\ Append(s, a) \in Seq(D)
  OBVIOUS
<1>2. /\ Len(Append(s, a)) = Len(s) + 1 /\ Append(s, a)[Len(s) + 1] = a
      /\ \A k \in 1..Len(s) : Append(s, a)[k] = s[k]
  OBVIOUS
<1>3. \A u \in Seq(D) : /\ Len(Append(u, b)) = Len(u) + 1 /\ Append(u, b)[Len(u) + 1] = b
                        /\ \A k \in 1..Len(u) : Append(u, b)[k] = u[k]
  OBVIOUS
<1> DEFINE n == Len(s)
           u == Append(s, a)
<1>4. n \in Nat
  OBVIOUS
<1> HIDE DEF n, u
<1>5. /\ Len(u) = n + 1 /\ u[n + 1] = a /\ \A k \in 1..n : u[k] = s[k]
      /\ Len(Append(u, b)) = n + 2 /\ Append(u, b)[n + 2] = b
      /\ \A k \in 1..(n + 1) : Append(u, b)[k] = u[k]
  BY <1>1, <1>2, <1>3, <1>4 DEF n, u
<1>6. Append(u, b)[n + 1] = a /\ \A k \in 1..n : Append(u, b)[k] = s[k]
  BY <1>4, <1>5
<1> QED
  BY <1>1, <1>5, <1>6 DEF n, u

\* A chain that runs to its end, or none: what was read is the line.
LEMMA EndFollows ==
  ASSUME TypeInv, Following, RunChain \/ Finish
  PROVE  Following'
<1>1. pc = "parse" /\ i > Len(argv) /\ UNCHANGED <<inv, i, phases>>
  BY DEF RunChain, Finish
<1>2. PICK R \in SUBSET DOMAIN argv : Read(R) /\ Progress(R)
  BY <1>1 DEF Following, Busy
<1>3. R \in Heads
  BY <1>1, <1>2, ReadAll
<1>4. /\ Heads' = Heads /\ InChain(R)' = InChain(R) /\ Early(R)' = Early(R)
      /\ \A n : PhaseAt(n)' = PhaseAt(n) /\ Told(n)' = Told(n)
  BY <1>1, LineKept
<1>5. PhasesOf(InChain(R)) /\ PhasesOf(InChain(R))'
  BY <1>1, <1>2, <1>4 DEF Progress, PhasesOf
<1> DEFINE early == Cardinality(Early(R))
<1>6. early \in Nat
  BY <1>5, ChainBegun, FS_CardinalityType
<1>7. CASE pc' = "done"
  <2>1. CASE Finish
    <3>1. acts' = acts /\ (phases = <<>> \/ inv.dryRun)
      BY <2>1 DEF Finish
    <3>2. IF inv.dryRun THEN acts' = <<>> ELSE OrdersOf(Early(R))' /\ phases' = <<>> /\ Len(acts') = early
      BY <1>1, <1>2, <1>4, <3>1 DEF Progress, OrdersOf
    <3> QED
      BY <1>1, <1>3, <1>4, <1>5, <1>7, <3>2 DEF Following, AsWritten, Busy
  <2>2. CASE RunChain
    <3> DEFINE on == Act("chain", 0)
               off == Act("off", 0)
    <3>1. /\ acts' = acts \o <<on, off>> /\ phases # <<>> /\ ~inv.dryRun
          /\ Len(acts) = early /\ OrdersOf(Early(R))
      BY <1>2, <1>7, <2>2 DEF RunChain, ChainDone, Progress
    <3>2. on \in Order /\ off \in Order /\ acts \in Seq(Order)
      BY DEF Act, Order, TypeInv
    <3> HIDE DEF on, off, early
    <3>3. /\ Len(acts') = early + 2 /\ acts'[early + 1] = on /\ acts'[early + 2] = off
          /\ \A k \in 1..early : acts'[k] = acts[k]
      BY <3>1, <3>2, TwoBehind
    <3>4. \A n \in Early(R) : Rank(n, Early(R)) \in 1..early
      <4> TAKE n \in Early(R)
      <4>1. Early(R) \in SUBSET Nat /\ IsFiniteSet(Early(R))
        BY <1>5, ChainBegun, InvocationAssumption
           DEF Early, InvocationAssumption, argv, TypeInv
      <4> DEFINE U == {m \in Early(R) : m <= n}
      <4>2. n \in U
        BY <4>1
      <4> HIDE DEF U
      <4>3. IsFiniteSet(U) /\ Cardinality(U) <= early /\ Cardinality(U) \in Nat
        BY <4>1, FS_Subset, FS_CardinalityType DEF U, early
      <4>4. Cardinality(U) # 0
        BY <4>2, <4>3, FS_EmptySet
      <4>5. Cardinality(U) \in 1..early
        BY <1>6, <4>3, <4>4
      <4> QED
        BY <4>5 DEF Rank, U
    <3>5. OrdersOf(Early(R))'
      BY <1>4, <3>1, <3>3, <3>4 DEF OrdersOf
    <3> QED
      BY <1>1, <1>3, <1>4, <1>5, <1>7, <3>1, <3>3, <3>5
         DEF Following, AsWritten, Busy, on, off, early
  <2> QED
    BY <2>1, <2>2
<1>8. CASE pc' # "done"
  <2>1. pc' \in {"alarm", "killed"}
    BY <1>8 DEF RunChain, ChainDone, Finish
  <2> QED
    BY <2>1 DEF Following, AsWritten, Busy
<1> QED
  BY <1>7, <1>8

\* A word at which no command starts, or too few words: no reading of the line passes it.
LEMMA RejectFollows ==
  ASSUME TypeInv, Following, Reject
  PROVE  Following'
<1>1. i \in DOMAIN argv /\ ~Valid(i) /\ pc = "parse" /\ pc' = "rejected"
  BY ReadingWord DEF Reject, Reading
<1>2. PICK R \in SUBSET DOMAIN argv : Read(R) /\ Progress(R)
  BY <1>1 DEF Following, Busy
<1>3. Heads = {}
  BY <1>1, <1>2, AllReadHere DEF Heads
<1>4. Heads' = Heads
  BY LineKept DEF Reject
<1> QED
  BY <1>1, <1>3, <1>4 DEF Following, AsWritten, Busy

\* Every step of main() goes on with the line as it is written.
LEMMA FollowStep == TypeInv /\ Following /\ [Next]_vars => Following'
<1> SUFFICES ASSUME TypeInv, Following, [Next]_vars PROVE Following'
  OBVIOUS
<1>1. CASE Immediate
  BY <1>1, ImmediateFollows
<1>2. CASE Collect
  BY <1>2, CollectFollows
<1>3. CASE RunChain \/ Finish
  BY <1>3, EndFollows
<1>4. CASE Reject
  BY <1>4, RejectFollows
<1>5. CASE Configure \/ Warm
  <2>1. UNCHANGED <<inv, i, phases, acts>> /\ pc \in Busy /\ pc' \in {"parse", "failed"}
    BY <1>5 DEF Configure, Warm, Busy
  <2>2. PICK R \in SUBSET DOMAIN argv : Read(R) /\ Progress(R)
    BY <2>1 DEF Following
  <2>3. R \in SUBSET DOMAIN argv' /\ Read(R)' /\ Progress(R)'
    BY <2>1, <2>2, ProgressKept
  <2> QED
    BY <2>1, <2>3 DEF Following, AsWritten, Busy
<1>6. CASE Alarm \/ NoMemory \/ Killed
  <2>1. pc' \in {"alarm", "failed", "killed"}
    BY <1>6 DEF Alarm, NoMemory, Killed
  <2> QED
    BY <2>1 DEF Following, AsWritten, Busy
<1>7. CASE UNCHANGED vars
  <2>1. UNCHANGED <<inv, pc, i, phases, acts>>
    BY <1>7 DEF vars
  <2>2. AsWritten'
    <3>1. /\ Heads' = Heads
          /\ \A n : PhaseAt(n)' = PhaseAt(n) /\ Told(n)' = Told(n)
          /\ \A S : InChain(S)' = InChain(S) /\ Early(S)' = Early(S)
      BY <2>1, LineKept
    <3> QED
      BY <2>1, <3>1 DEF Following, AsWritten, PhasesOf, OrdersOf
  <2>3. CASE pc \in Busy
    <3>1. PICK R \in SUBSET DOMAIN argv : Read(R) /\ Progress(R)
      BY <2>3 DEF Following
    <3>2. R \in SUBSET DOMAIN argv' /\ Read(R)' /\ Progress(R)'
      BY <2>1, <3>1, ProgressKept
    <3> QED
      BY <2>2, <3>2 DEF Following
  <2>4. CASE pc \notin Busy
    BY <2>1, <2>2, <2>4 DEF Following
  <2> QED
    BY <2>3, <2>4
<1> QED
  BY <1>1, <1>2, <1>3, <1>4, <1>5, <1>6, <1>7 DEF Next

\* For every command line: it is rejected only when it is no line of well formed commands,
\* and carried out to its end only when it is one, the immediate commands in the order
\* written and after all of them the chain.
THEOREM LineAsWritten == Spec => []AsWritten
<1>1. Following => AsWritten
  BY DEF Following
<1> QED
  BY <1>1, FollowInit, FollowStep, Types, PTL DEF Spec

-----------------------------------------------------------------------------
(* Reading ends.                                                           *)

\* What main() has still to do: two for each word not read, since a temp that waits
\* takes two steps for its two words.
ToDo ==
  LET unread == 2 * (Len(argv) + 1 - i)
  IN IF pc \in {"config", "wait"} THEN unread + 2
     ELSE IF pc = "parse" THEN unread + 1 ELSE 0

\* ToDo is a natural number.
LEMMA ToDoType == ASSUME TypeInv PROVE ToDo \in Nat
<1>1. Len(argv) \in Nat
  BY InvocationAssumption DEF InvocationAssumption, argv, TypeInv
<1> DEFINE len == Len(argv)
<1> HIDE DEF len
<1>2. len \in Nat /\ i \in 1..(len + 1)
  BY <1>1 DEF TypeInv, len
<1>3. 2 * (len + 1 - i) \in Nat
  BY <1>2
<1> QED
  BY <1>3 DEF ToDo, len

\* Every step of main() leaves less to do.
LEMMA ToDoStep == ASSUME TypeInv, Next PROVE ToDo' < ToDo
<1> DEFINE len == Len(argv)
<1>1. len \in Nat /\ i \in 1..(len + 1) /\ Len(argv') = len
  <2>1. Len(argv) \in Nat
    BY InvocationAssumption DEF InvocationAssumption, argv, TypeInv
  <2>2. inv' = inv
    BY DEF Next, Configure, Immediate, Warm, Alarm, Collect, Reject, NoMemory, RunChain,
       Finish, Killed
  <2> QED
    BY <2>1, <2>2 DEF TypeInv, argv
<1>2. /\ ToDo = IF pc \in {"config", "wait"} THEN 2 * (len + 1 - i) + 2
                ELSE IF pc = "parse" THEN 2 * (len + 1 - i) + 1 ELSE 0
      /\ ToDo' = IF pc' \in {"config", "wait"} THEN 2 * (len + 1 - i') + 2
                 ELSE IF pc' = "parse" THEN 2 * (len + 1 - i') + 1 ELSE 0
  BY <1>1 DEF ToDo
<1> HIDE DEF len
<1>3. CASE Immediate \/ Collect
  <2>1. pc = "parse" /\ pc' \in {"parse", "wait"} /\ i' = After(i)
        /\ (pc' = "wait" => argv[i].word = "temp") /\ Valid(i) /\ Reading
    BY <1>3 DEF Immediate, Collect, Reading
  <2>2. i \in DOMAIN argv
    BY <2>1, ReadingWord
  <2>3. i < After(i) /\ After(i) \in Nat
    BY <2>1, <2>2, AfterIs
  <2>4. argv[i].word = "temp" => After(i) = i + 2
    <3>1. Arity["temp"] = 1
      BY DEF Arity
    <3> QED
      BY <1>1, <3>1 DEF After
  <2>5. \A j \in Nat : /\ i < j => 2 * (len + 1 - j) + 1 < 2 * (len + 1 - i) + 1
                       /\ j = i + 2 => 2 * (len + 1 - j) + 2 < 2 * (len + 1 - i) + 1
    BY <1>1
  <2> QED
    BY <1>2, <2>1, <2>3, <2>4, <2>5
<1>4. CASE Configure \/ Warm
  <2>1. pc \in {"config", "wait"} /\ pc' \in {"parse", "failed"} /\ i' = i
    BY <1>4 DEF Configure, Warm
  <2> QED
    BY <1>1, <1>2, <2>1
<1>5. CASE Alarm \/ Reject \/ NoMemory \/ RunChain \/ Finish \/ Killed
  <2>1. pc \in {"config", "parse", "wait"}
        /\ pc' \in {"alarm", "rejected", "failed", "done", "killed"}
    BY <1>5 DEF Alarm, Reject, Reading, NoMemory, RunChain, ChainDone, Finish, Killed
  <2>2. ToDo' = 0
    BY <1>2, <2>1
  <2>3. 0 < 2 * (len + 1 - i) + 1 /\ 0 < 2 * (len + 1 - i) + 2
    BY <1>1
  <2> QED
    BY <1>2, <2>1, <2>2, <2>3
<1> QED
  BY <1>3, <1>4, <1>5 DEF Next

\* No command line, whatever is in it, is read for ever: every step of main() brings it
\* nearer to its end, which it reaches in 2 * Len(argv) + 2 steps at most.
THEOREM ReadingEnds == Spec => [](ToDo \in Nat) /\ [][ToDo' < ToDo]_vars
<1>1. TypeInv => ToDo \in Nat
  BY ToDoType
<1>2. TypeInv /\ [Next]_vars => [ToDo' < ToDo]_vars
  BY ToDoStep
<1> QED
  BY <1>1, <1>2, Types, PTL DEF Spec

=============================================================================
