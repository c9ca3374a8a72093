------------------------------ MODULE WizardProofs ------------------------------
(***************************************************************************)
(* Theorems about Wizard: for every account, network, file and choice of   *)
(* options, every size of the table of devices, and whatever the cloud     *)
(* answers or does not.                                                    *)
(***************************************************************************)
EXTENDS Wizard, FiniteSetTheorems, SequenceTheorems, TLAPS

-----------------------------------------------------------------------------
(* The inductive invariant.                                                *)

\* The requests that wizard_main() makes once it has a token.
Later == Ops \ {"token"}

\* A call under way.
Call == [op : Ops, tries : Nat]

\* The types of TypeOK in groups that the provers take one at a time.
CredType == opts \in Options /\ cred \in [Fields -> STRING] /\ file \in [Fields -> STRING]

Places == {"start", "creds", "call", "save", "write", "ask", "scan", "saveScan",
           "writeScan"} \cup Ended

CallType ==
  /\ pc \in Places
  /\ todo \in Seq(Later) /\ token \in BOOLEAN /\ issued \in Nat
  /\ stack \in Seq(Call)
  /\ pc = "call" => stack # <<>>

TableType == devices \in Seq(Device) /\ Len(devices) <= Capacity /\ fetched \in Seq(STRING)

ListType ==
  /\ list \in [whole : BOOLEAN, devices : Seq(Device)]
  /\ Len(list.devices) <= Capacity
  /\ failed \subseteq {"save", "write", "saveScan", "writeScan"}

\* The calls under way: a request, or one that was called invalid and the request for a
\* new token in it.  There is no token as long as one is asked for.
Shape ==
  /\ Len(stack) <= 2
  /\ Len(stack) = 1 =>
       /\ stack[1].tries <= 1
       /\ stack[1].tries > 0 => token
       /\ stack[1].op = "token" => ~token
  /\ Len(stack) = 2 =>
       /\ stack[1].tries = 1 /\ stack[1].op # "token"
       /\ stack[2] = Frame("token") /\ ~token

\* -I is the last of the requests, and it is over when the cloud has done it.
IssueLast(s) == \A k \in DOMAIN s : s[k] = "issue" => k = Len(s)
Issuing ==
  /\ issued = 0 \/ (issued = 1 /\ stack = <<>> /\ pc \notin {"start", "creds"})
  /\ IssueLast(todo)
  /\ stack # <<>> /\ stack[1].op = "issue" => todo = <<>>

\* The devices of the cloud come first in a table, with their keys, as far as it has
\* room, and an id has one entry.
Covers(table) ==
  /\ \A n \in 1..Len(fetched) : n <= Capacity =>
       n <= Len(table) /\ table[n].id = fetched[n] /\ table[n].key = "key"
  /\ \A k, l \in 1..Len(table) : table[k].id = table[l].id => k = l

\* The list on disk is not touched before the requests are over, and from the first
\* save on it is as the table was, unless that failed.
Saved ==
  /\ Covers(devices)
  /\ pc \in {"start", "creds"} => fetched = <<>>
  /\ pc \in {"start", "creds", "call", "save"} => list.whole /\ list.devices = <<>>
  /\ pc \in {"ask", "scan", "saveScan", "done"} /\ ~OneShot /\ failed \subseteq {"saveScan"} =>
       list.whole /\ Covers(list.devices)

IInv ==
  /\ CredType /\ CallType /\ TableType /\ ListType
  /\ Shape
  /\ Issuing
  /\ Saved

-----------------------------------------------------------------------------
(* The requests that are to be made.                                       *)

\* A single call as a stack.
LEMMA OneCall ==
  ASSUME NEW op \in Ops
  PROVE  /\ Frame(op) \in Call /\ Frame(op).op = op /\ Frame(op).tries = 0
         /\ <<Frame(op)>> \in Seq(Call) /\ <<Frame(op)>> # <<>>
         /\ Len(<<Frame(op)>>) = 1 /\ <<Frame(op)>>[1] = Frame(op)
BY DEF Frame, Call

\* What is left of the requests without the first.
LEMMA RestOfRequests ==
  ASSUME NEW s \in Seq(Later), s # <<>>, IssueLast(s)
  PROVE  /\ Head(s) \in Later /\ Tail(s) \in Seq(Later) /\ IssueLast(Tail(s))
         /\ Head(s) = "issue" => Tail(s) = <<>>
<1>1. /\ Head(s) \in Later /\ Tail(s) \in Seq(Later)
      /\ Len(Tail(s)) = Len(s) - 1 /\ Len(s) \in Nat /\ Len(s) > 0
      /\ \A k \in 1..Len(Tail(s)) : Tail(s)[k] = s[k + 1]
  BY HeadTailProperties, EmptySeq
<1>2. DOMAIN s = 1..Len(s) /\ DOMAIN Tail(s) = 1..Len(Tail(s)) /\ s[1] = Head(s)
  BY <1>1, LenProperties
<1>3. IssueLast(Tail(s))
  BY <1>1, <1>2 DEF IssueLast
<1>4. ASSUME Head(s) = "issue" PROVE Tail(s) = <<>>
  <2>1. Len(s) = 1
    BY <1>1, <1>2, <1>4 DEF IssueLast
  <2>2. Len(Tail(s)) = 0
    BY <1>1, <2>1
  <2> QED
    BY <1>1, <2>2, EmptySeq
<1> QED
  BY <1>1, <1>3, <1>4

\* The one-shots that the options ask for.
LEMMA OneShotList == OneShots \in Seq(Later) /\ IssueLast(OneShots)
<1> DEFINE early == Asked("model") \o Asked("shadow")
<1>1. /\ Asked("model") \in Seq({"model", "shadow"})
      /\ Asked("shadow") \in Seq({"model", "shadow"})
      /\ Asked("issue") \in Seq({"issue"}) /\ Len(Asked("issue")) \in {0, 1}
  <2>1. \A S, op : op \in S => Asked(op) \in Seq(S) /\ Len(Asked(op)) \in {0, 1}
    BY DEF Asked
  <2> QED
    BY <2>1
<1>2. early \in Seq({"model", "shadow"})
  BY <1>1, ConcatProperties
<1>3. early \in Seq(Later) /\ Asked("issue") \in Seq(Later)
  BY <1>1, <1>2 DEF Later, Ops
<1> HIDE DEF early
<1>4. /\ early \o Asked("issue") \in Seq(Later)
      /\ Len(early \o Asked("issue")) = Len(early) + Len(Asked("issue"))
      /\ \A k \in 1..Len(early) + Len(Asked("issue")) :
           (early \o Asked("issue"))[k] =
             IF k <= Len(early) THEN early[k] ELSE Asked("issue")[k - Len(early)]
  BY <1>3, ConcatProperties
<1>5. \A k \in 1..Len(early) : early[k] # "issue"
  BY <1>2
<1>6. Len(Asked("issue")) <= 1 /\ Len(Asked("issue")) \in Nat /\ Len(early) \in Nat
  <2>1. Len(Asked("issue")) \in {0, 1}
    BY <1>1, Zenon
  <2>2. Len(early) \in Nat
    BY <1>2, LenProperties
  <2>3. \A n \in {0, 1} : n <= 1 /\ n \in Nat
    OBVIOUS
  <2> QED
    BY <2>1, <2>2, <2>3, Zenon
<1>7. DOMAIN (early \o Asked("issue")) = 1..(Len(early) + Len(Asked("issue")))
  BY <1>4, LenProperties
<1>8. IssueLast(early \o Asked("issue"))
  BY <1>4, <1>5, <1>6, <1>7 DEF IssueLast
<1> QED
  BY <1>4, <1>8 DEF OneShots, early

\* The requests that fetch the devices.
LEMMA FetchList == <<"uid", "list">> \in Seq(Later) /\ IssueLast(<<"uid", "list">>)
BY DEF Later, Ops, IssueLast

-----------------------------------------------------------------------------
(* Returning to wizard_main().                                             *)

\* What the next step of wizard_main() leaves of the calls.
Onward ==
  /\ todo' \in Seq(Later) /\ IssueLast(todo')
  /\ \/ stack' = <<>>
     \/ \E op \in Later : stack' = <<Frame(op)>> /\ (op = "issue" => todo' = <<>>)
  /\ pc' \in {"call", "done", "save", "failed"}
  /\ pc' = "done" => OneShot
  /\ pc' = "call" => stack' # <<>>

\* With the requests that are left.
LEMMA GoOnStep ==
  ASSUME NEW requests \in Seq(Later), IssueLast(requests), GoOn(requests)
  PROVE  Onward /\ (requests = <<>> => stack' = <<>>)
<1>1. CASE requests # <<>>
  <2>1. /\ Head(requests) \in Later /\ Tail(requests) \in Seq(Later)
        /\ IssueLast(Tail(requests))
        /\ Head(requests) = "issue" => Tail(requests) = <<>>
    BY <1>1, RestOfRequests
  <2>2. /\ stack' = <<Frame(Head(requests))>> /\ todo' = Tail(requests) /\ pc' = "call"
    BY <1>1 DEF GoOn
  <2>3. stack' # <<>>
    BY <2>2
  <2> QED
    BY <1>1, <2>1, <2>2, <2>3 DEF Onward
<1>2. CASE requests = <<>>
  <2>1. stack' = <<>> /\ todo' = <<>> /\ pc' \in {"done", "save"} /\ (pc' = "done" => OneShot)
    BY <1>2 DEF GoOn
  <2>2. <<>> \in Seq(Later) /\ IssueLast(<<>>)
    BY DEF IssueLast
  <2> QED
    BY <2>1, <2>2 DEF Onward
<1> QED
  BY <1>1, <1>2

\* Or with the end of the run.
LEMMA GiveUpStep == ASSUME CallType, Issuing, GiveUp PROVE Onward /\ stack' = <<>>
BY DEF CallType, Issuing, GiveUp, Onward

\* The table is left alone, or is what the cloud has sent.
Filled == \/ UNCHANGED <<devices, fetched>>
          \/ \E answer \in {"ok", "empty"} :
               fetched' \in Listed(answer) /\ devices' = Listing(fetched')

\* A call of wizard_main() returns; the request of -I is the last one.
LEMMA ReturnsStep ==
  ASSUME CallType, Issuing, NEW op \in Ops, NEW answer, Returns(op, answer)
  PROVE  Onward /\ Filled /\ (op = "issue" /\ todo = <<>> => stack' = <<>>)
<1>1. todo \in Seq(Later) /\ IssueLast(todo)
  BY DEF CallType, Issuing
<1>2. CASE op = "token"
  <2>1. UNCHANGED <<devices, fetched>>
    BY <1>2 DEF Returns
  <2>2. CASE GiveUp
    BY <1>2, <2>1, <2>2, GiveUpStep DEF Filled
  <2>3. CASE GoOn(OneShots)
    BY <1>2, <2>1, <2>3, GoOnStep, OneShotList DEF Filled
  <2>4. CASE GoOn(<<"uid", "list">>)
    BY <1>2, <2>1, <2>4, GoOnStep, FetchList DEF Filled
  <2> QED
    BY <1>2, <2>2, <2>3, <2>4 DEF Returns
<1>3. CASE op = "uid"
  <2>1. UNCHANGED <<devices, fetched>> /\ (GiveUp \/ GoOn(todo))
    BY <1>3 DEF Returns
  <2> QED
    BY <1>1, <1>3, <2>1, GiveUpStep, GoOnStep DEF Filled
<1>4. CASE op = "list"
  <2>1. (GiveUp \/ GoOn(todo)) /\ Filled
    BY <1>4 DEF Returns, Filled
  <2> QED
    BY <1>1, <1>4, <2>1, GiveUpStep, GoOnStep
<1>5. CASE op \notin {"token", "uid", "list"}
  <2>1. GoOn(todo) /\ UNCHANGED <<devices, fetched>>
    BY <1>5 DEF Returns
  <2> QED
    BY <1>1, <2>1, GoOnStep DEF Filled
<1> QED
  BY <1>2, <1>3, <1>4, <1>5

-----------------------------------------------------------------------------
(* Requests.                                                               *)

\* The calls after wizard_main() has gone on, with nothing issued or the last request.
LEMMA OnwardCalls ==
  ASSUME Onward, token' \in BOOLEAN, issued' = 0 \/ (issued' = 1 /\ stack' = <<>>)
  PROVE  CallType' /\ Shape' /\ Issuing'
<1>1. pc' \in Places /\ pc' \notin {"start", "creds"}
  BY DEF Onward, Places, Ended
<1>2. CASE stack' = <<>>
  <2>1. stack' \in Seq(Call) /\ Len(stack') = 0
    BY <1>2
  <2> QED
    BY <1>1, <1>2, <2>1 DEF Onward, CallType, Shape, Issuing
<1>3. CASE \E op \in Later : stack' = <<Frame(op)>> /\ (op = "issue" => todo' = <<>>)
  <2>1. PICK op \in Later : stack' = <<Frame(op)>> /\ (op = "issue" => todo' = <<>>)
    BY <1>3
  <2>2. /\ stack' \in Seq(Call) /\ stack' # <<>> /\ Len(stack') = 1
        /\ stack'[1].op = op /\ stack'[1].tries = 0 /\ op # "token"
    BY <2>1, OneCall DEF Later
  <2>3. CallType'
    BY <1>1, <2>2 DEF Onward, CallType
  <2>4. Shape'
    BY <2>2 DEF Shape
  <2>5. Issuing'
    BY <1>1, <2>1, <2>2 DEF Onward, Issuing
  <2> QED
    BY <2>3, <2>4, <2>5
<1> QED
  BY <1>2, <1>3 DEF Onward

\* The innermost call.
LEMMA Innermost ==
  ASSUME IInv, pc = "call"
  PROVE  /\ Len(stack) \in {1, 2} /\ Top = stack[Len(stack)]
         /\ Top.op \in Ops /\ Top.tries \in Nat /\ issued = 0
         /\ Len(stack) = 2 => Top.op = "token"
         /\ Top.op = "token" => ~token
         /\ stack[1].op \in Ops
<1>1. Len(stack) \in {1, 2} /\ stack # <<>> /\ stack \in Seq(Call)
  <2>1. stack \in Seq(Call) /\ stack # <<>> /\ Len(stack) <= 2
    BY DEF IInv, CallType, Shape
  <2>2. Len(stack) \in Nat \ {0}
    BY <2>1, EmptySeq
  <2>3. \A n \in Nat \ {0} : n <= 2 => n \in {1, 2}
    OBVIOUS
  <2> QED
    BY <2>1, <2>2, <2>3, Zenon
<1>2. Top = stack[Len(stack)] /\ stack[1] \in Call /\ Top \in Call
  <2>1. 1 \in 1..Len(stack) /\ Len(stack) \in 1..Len(stack)
    BY <1>1
  <2> QED
    BY <1>1, <2>1, ElementOfSeq DEF Top
<1>3. Len(stack) = 2 => Top.op = "token" /\ ~token
  BY <1>2 DEF IInv, Shape, Frame
<1>4. Len(stack) = 1 /\ Top.op = "token" => ~token
  BY <1>2 DEF IInv, Shape
<1>5. issued = 0
  BY <1>1 DEF IInv, Issuing
<1> QED
  BY <1>1, <1>2, <1>3, <1>4, <1>5 DEF Call

\* A request that was found invalid waits for the request for a token, with none.
LEMMA RefreshStep ==
  ASSUME IInv, pc = "call", NEW answer, Refreshable(answer), Refresh, issued' = issued
  PROVE  CallType' /\ Shape' /\ Issuing'
<1>1. /\ Len(stack) = 1 /\ stack \in Seq(Call) /\ Top = stack[1]
      /\ Top.op # "token" /\ Top.tries = 0 /\ issued = 0
  BY Innermost DEF IInv, CallType, Refreshable
<1> DEFINE again == [stack EXCEPT ![Len(stack)].tries = @ + 1]
<1>2. /\ again \in Seq(Call) /\ Len(again) = 1
      /\ again[1].op = stack[1].op /\ again[1].tries = 1
  <2>1. stack[1] \in Call /\ 1 \in 1..Len(stack)
    BY <1>1, ElementOfSeq
  <2> DEFINE first == [stack[1] EXCEPT !.tries = @ + 1]
  <2>2. first \in Call /\ first.op = stack[1].op /\ first.tries = 1
    BY <1>1, <2>1 DEF Call
  <2>3. again = [stack EXCEPT ![1] = first]
    BY <1>1
  <2> HIDE DEF first, again
  <2> QED
    BY <1>1, <2>1, <2>2, <2>3, ExceptSeq
<1>3. Frame("token") \in Call
  BY OneCall DEF Ops
<1>4. stack' = Append(again, Frame("token")) /\ token' = FALSE /\ UNCHANGED <<pc, todo>>
  BY DEF Refresh, Forget
<1> HIDE DEF again
<1>5. /\ stack' \in Seq(Call) /\ stack' # <<>> /\ Len(stack') = 2
      /\ stack'[1] = again[1] /\ stack'[2] = Frame("token")
  <2>1. /\ Append(again, Frame("token")) \in Seq(Call)
        /\ Append(again, Frame("token")) # <<>>
        /\ Len(Append(again, Frame("token"))) = Len(again) + 1
        /\ \A k \in 1..Len(again) : Append(again, Frame("token"))[k] = again[k]
        /\ Append(again, Frame("token"))[Len(again) + 1] = Frame("token")
    BY <1>2, <1>3, AppendProperties
  <2> QED
    BY <1>2, <1>4, <2>1
<1>6. CallType'
  BY <1>4, <1>5 DEF IInv, CallType
<1>7. Shape'
  BY <1>1, <1>2, <1>4, <1>5 DEF Shape
<1>8. Issuing'
  <2>1. stack # <<>>
    BY Innermost, EmptySeq DEF IInv, CallType
  <2> QED
    BY <1>1, <1>2, <1>4, <1>5, <2>1 DEF IInv, Issuing
<1> QED
  BY <1>6, <1>7, <1>8

\* The request for a token returns, to wizard_main() or to the call that waits for it.
LEMMA TokenStep ==
  ASSUME IInv, pc = "call", Top.op = "token", NEW answer, TokenReturns(answer),
         issued' = issued
  PROVE  CallType' /\ Shape' /\ Issuing' /\ Filled
<1>1. /\ Len(stack) \in {1, 2} /\ stack \in Seq(Call)
      /\ issued = 0 /\ stack[1].op \in Ops /\ stack # <<>>
      /\ CallType /\ Issuing /\ "token" \in Ops
  BY Innermost DEF IInv, CallType, Ops
<1>2. token' \in BOOLEAN
  BY DEF TokenReturns, IInv, CallType
<1>3. CASE Len(stack) = 1
  <2>1. Returns("token", TokenIn(answer))
    BY <1>3 DEF TokenReturns
  <2> QED
    BY <1>1, <1>2, <2>1, ReturnsStep, OnwardCalls
<1>4. CASE Len(stack) = 2 /\ TokenIn(answer) # "ok"
  <2>1. Returns(stack[1].op, "null")
    BY <1>4 DEF TokenReturns
  <2> QED
    BY <1>1, <1>2, <2>1, ReturnsStep, OnwardCalls
<1>5. CASE Len(stack) = 2 /\ TokenIn(answer) = "ok"
  <2>1. /\ stack' = SubSeq(stack, 1, 1) /\ token'
        /\ UNCHANGED <<pc, todo, devices, fetched>>
    <3>1. Len(stack) - 1 = 1 /\ Len(stack) - 1 # 0
      BY <1>5
    <3>2. answer = "ok"
      BY <1>5 DEF TokenIn
    <3>3. token'
      BY <3>2, Zenon DEF TokenReturns
    <3>4. stack' = SubSeq(stack, 1, 1) /\ UNCHANGED <<pc, todo, devices, fetched>>
      BY <1>5, <3>1, ZenonT(30) DEF TokenReturns
    <3> QED
      BY <3>3, <3>4
  <2>2. /\ stack' \in Seq(Call) /\ Len(stack') = 1 /\ stack' # <<>>
        /\ stack'[1] = stack[1]
    <3>1. \A k \in 1..1 : stack[k] \in Call
      BY <1>1, <1>5, ElementOfSeq
    <3>2. /\ SubSeq(stack, 1, 1) \in Seq(Call) /\ Len(SubSeq(stack, 1, 1)) = 1
          /\ SubSeq(stack, 1, 1)[1] = stack[1]
      <4>1. /\ SubSeq(stack, 1, 1) \in Seq(Call)
            /\ Len(SubSeq(stack, 1, 1)) = IF 1 <= 1 THEN 1 - 1 + 1 ELSE 0
            /\ \A k \in 1..(1 - 1 + 1) : SubSeq(stack, 1, 1)[k] = stack[1 + k - 1]
        BY <3>1, SubSeqProperties
      <4> QED
        BY <4>1
    <3>3. SubSeq(stack, 1, 1) # <<>>
      <4>1. Len(<<>>) = 0 /\ 0 # 1
        BY EmptySeq
      <4> QED
        BY <3>2, <4>1, Zenon
    <3> QED
      BY <2>1, <3>2, <3>3
  <2>3. CallType'
    BY <1>2, <2>1, <2>2 DEF IInv, CallType
  <2>4. Shape'
    BY <1>5, <2>1, <2>2 DEF IInv, Shape
  <2>5. Issuing'
    BY <1>1, <2>1, <2>2 DEF IInv, Issuing
  <2> QED
    BY <2>1, <2>3, <2>4, <2>5 DEF Filled
<1> QED
  BY <1>1, <1>3, <1>4, <1>5

\* The cloud's devices are a table without a double.
LEMMA ListingStep ==
  ASSUME IInv, pc = "call", Filled, UNCHANGED <<opts, list, failed>>,
         pc' \in {"call", "done", "save", "failed"}, pc' = "done" => OneShot
  PROVE  TableType' /\ Saved'
<1>1. list.whole /\ list.devices = <<>> /\ OneShot' = OneShot
  BY DEF IInv, Saved, OneShot
<1>2. TableType' /\ Covers(devices)'
  <2>1. CASE UNCHANGED <<devices, fetched>>
    BY <2>1 DEF IInv, TableType, Saved, Covers
  <2>2. CASE ~UNCHANGED <<devices, fetched>>
    <3>1. PICK answer \in {"ok", "empty"} :
                 fetched' \in Listed(answer) /\ devices' = Listing(fetched')
      BY <2>2 DEF Filled
    <3> DEFINE ids == fetched'
               size == IF Len(ids) < Capacity THEN Len(ids) ELSE Capacity
    <3>2. ids \in Seq(STRING) /\ \A m, n \in DOMAIN ids : ids[m] = ids[n] => m = n
      <4>1. CASE ids \in Accounts
        BY <4>1, WizardAssumption
      <4>2. CASE ids = <<>>
        BY <4>2
      <4> QED
        BY <3>1, <4>1, <4>2 DEF Listed
    <3> HIDE DEF ids
    <3>3. /\ Len(ids) \in Nat /\ DOMAIN ids = 1..Len(ids)
          /\ size \in Nat /\ size <= Capacity /\ size <= Len(ids)
          /\ \A n \in 1..Len(ids) : n <= Capacity => n <= size
      BY <3>2, WizardAssumption, LenProperties
    <3>4. \A n \in 1..size : Entry(ids[n], "key", Unset) \in Device
      <4>1. \A n \in 1..size : ids[n] \in STRING
        BY <3>2, <3>3, ElementOfSeq
      <4> QED
        BY <4>1 DEF Entry, Device
    <3>5. devices' = [n \in 1..size |-> Entry(ids[n], "key", Unset)]
      BY <3>1 DEF Listing, ids
    <3> HIDE DEF size
    <3>6. /\ devices' \in Seq(Device) /\ Len(devices') = size
          /\ \A n \in 1..size : devices'[n].id = ids[n] /\ devices'[n].key = "key"
      BY <3>3, <3>4, <3>5 DEF Entry
    <3>7. TableType'
      BY <3>2, <3>3, <3>6 DEF TableType, ids
    <3>8. Covers(devices)'
      BY <3>2, <3>3, <3>6 DEF Covers, ids
    <3> QED
      BY <3>7, <3>8
  <2> QED
    BY <2>1, <2>2
<1> QED
  BY <1>1, <1>2 DEF Saved

\* Only the cloud's doing what -I asks counts, and then nothing is left to be done.
LEMMA RequestStep == ASSUME IInv, Request PROVE IInv'
<1>1. pc = "call" /\ UNCHANGED <<opts, cred, file, list, failed>>
  BY DEF Request
<1>2. /\ Len(stack) \in {1, 2} /\ Top = stack[Len(stack)] /\ Top.op \in Ops /\ issued = 0
      /\ Len(stack) = 2 => Top.op = "token"
      /\ Top.op = "token" => ~token
  BY <1>1, Innermost
<1>3. PICK answer \in Answers :
        /\ \E done \in Performed(answer) :
             issued' = IF Top.op = "issue" /\ done THEN issued + 1 ELSE issued
        /\ IF Refreshable(answer) THEN Refresh
           ELSE IF Top.op = "token" THEN TokenReturns(answer)
           ELSE Returns(Top.op, answer) /\ UNCHANGED token
  BY DEF Request
<1>4. CallType' /\ Shape' /\ Issuing' /\ Filled
  <2>1. CASE Refreshable(answer)
    <3>1. Refresh /\ issued' = issued
      BY <1>3, <2>1 DEF Refreshable, Performed
    <3>2. Filled
      BY <3>1 DEF Refresh, Filled
    <3> QED
      BY <1>1, <2>1, <3>1, <3>2, RefreshStep
  <2>2. CASE ~Refreshable(answer) /\ Top.op = "token"
    BY <1>1, <1>3, <2>2, TokenStep
  <2>3. CASE ~Refreshable(answer) /\ Top.op # "token"
    <3>1. Returns(Top.op, answer) /\ UNCHANGED token /\ CallType /\ Issuing
      BY <1>3, <2>3 DEF IInv
    <3>2. Onward /\ Filled /\ (Top.op = "issue" /\ todo = <<>> => stack' = <<>>)
      BY <1>2, <3>1, ReturnsStep
    <3>3. Len(stack) = 1 /\ stack # <<>> /\ Top = stack[1]
      BY <1>2, <2>3
    <3>4. issued' = 0 \/ (issued' = 1 /\ stack' = <<>>)
      BY <1>2, <1>3, <3>1, <3>2, <3>3 DEF Issuing
    <3>5. token' \in BOOLEAN
      BY <3>1 DEF CallType
    <3> QED
      BY <3>2, <3>4, <3>5, OnwardCalls
  <2> QED
    BY <2>1, <2>2, <2>3
<1>5. pc' \in {"call", "done", "save", "failed"} /\ (pc' = "done" => OneShot)
  <2>1. CASE Refreshable(answer)
    BY <1>1, <1>3, <2>1 DEF Refresh
  <2>2. CASE ~Refreshable(answer) /\ Top.op # "token"
    BY <1>2, <1>3, <2>2, ReturnsStep DEF IInv, Onward
  <2>3. CASE ~Refreshable(answer) /\ Top.op = "token"
    <3>1. stack[1].op \in Ops /\ "token" \in Ops
      BY <1>1, Innermost DEF Ops
    <3>2. \/ \E op \in Ops, a \in {TokenIn(answer), "null"} : Returns(op, a)
          \/ UNCHANGED pc
      BY <1>2, <1>3, <2>3, <3>1 DEF TokenReturns
    <3> QED
      BY <1>1, <3>2, ReturnsStep DEF IInv, Onward
  <2> QED
    BY <2>1, <2>2, <2>3
<1>6. TableType' /\ Saved'
  BY <1>1, <1>4, <1>5, ListingStep
<1>7. CredType' /\ ListType'
  BY <1>1 DEF IInv, CredType, ListType
<1> QED
  BY <1>4, <1>6, <1>7 DEF IInv

-----------------------------------------------------------------------------
(* The other steps of the program.                                         *)

\* Steps that make no request.
LEMMA CallsKept ==
  ASSUME IInv, UNCHANGED <<todo, stack, token, issued>>, pc' \in Places \ {"start", "creds", "call"}
  PROVE  CallType' /\ Shape' /\ Issuing'
BY DEF IInv, CallType, Shape, Issuing

\* The file counts for what it has, the options for the rest.
LEMMA LoadStep == ASSUME IInv, Load PROVE IInv'
<1> USE DEF Load, calls
<1>1. CredType'
  BY WizardAssumption DEF IInv, CredType
<1>2. CallType' /\ Shape' /\ Issuing'
  BY DEF IInv, CallType, Shape, Issuing, Places
<1>3. TableType' /\ ListType' /\ Saved'
  BY DEF IInv, TableType, ListType, Saved, Covers, OneShot
<1> QED
  BY <1>1, <1>2, <1>3 DEF IInv

\* The first request is the one for a token.
LEMMA CredentialsStep == ASSUME IInv, Credentials PROVE IInv'
<1> USE DEF Credentials
<1>1. cred' \in [Fields -> STRING]
  <2>1. CASE UNCHANGED cred
    BY <2>1 DEF IInv, CredType
  <2>2. CASE \E typed \in [Fields -> {Unset, "typed"}] :
               cred' = [f \in Fields |-> IF typed[f] # Unset THEN typed[f] ELSE cred[f]]
    <3>1. PICK typed \in [Fields -> {Unset, "typed"}] :
             cred' = [f \in Fields |-> IF typed[f] # Unset THEN typed[f] ELSE cred[f]]
      BY <2>2
    <3>2. \A f \in Fields : typed[f] # Unset => typed[f] \in STRING
      <4>1. \A f \in Fields : typed[f] \in {Unset, "typed"}
        OBVIOUS
      <4>2. "typed" \in STRING
        BY WizardAssumption
      <4> QED
        BY <4>1, <4>2, Zenon
    <3>3. \A f \in Fields : cred[f] \in STRING
      BY DEF IInv, CredType
    <3> QED
      BY <3>1, <3>2, <3>3
  <2> QED
    BY <2>1, <2>2
<1>2. CredType'
  BY <1>1 DEF IInv, CredType
<1>3. /\ stack' \in Seq(Call) /\ stack' # <<>> /\ Len(stack') = 1
      /\ stack'[1].op = "token" /\ stack'[1].tries = 0
  BY OneCall DEF Ops
<1>4. CallType'
  BY <1>3 DEF IInv, CallType, Places
<1>5. Shape'
  BY <1>3 DEF Shape
<1>6. Issuing'
  BY <1>3 DEF IInv, Issuing
<1>7. TableType' /\ ListType' /\ Saved'
  BY DEF IInv, TableType, ListType, Saved, Covers, OneShot
<1> QED
  BY <1>2, <1>4, <1>5, <1>6, <1>7 DEF IInv

\* Opening the list empties it; what could not be opened is as it was.
LEMMA SaveOpenStep == ASSUME IInv, SaveOpen PROVE IInv'
<1> USE DEF SaveOpen, calls
<1>1. CallType' /\ Shape' /\ Issuing'
  BY CallsKept DEF Places, Ended
<1>2. CredType' /\ TableType'
  BY DEF IInv, CredType, TableType
<1>3. ListType'
  <2>1. failed' \subseteq {"save", "write", "saveScan", "writeScan"}
    BY DEF IInv, ListType
  <2>2. CASE list' = [whole |-> FALSE, devices |-> <<>>]
    <3>1. <<>> \in Seq(Device) /\ Len(<<>>) = 0 /\ 0 <= Capacity
      BY WizardAssumption
    <3>2. list' \in [whole : BOOLEAN, devices : Seq(Device)] /\ list'.devices = <<>>
      BY <2>2, <3>1
    <3> QED
      BY <2>1, <3>1, <3>2 DEF ListType
  <2>3. CASE UNCHANGED list
    BY <2>1, <2>3 DEF IInv, ListType
  <2> QED
    BY <2>2, <2>3
<1>4. Saved'
  <2>1. Covers(devices)' /\ pc' \in {"write", "writeScan", "ask", "done"} /\ OneShot' = OneShot
    BY DEF IInv, Saved, Covers, OneShot
  <2>2. ASSUME pc' \in {"ask", "done"}, ~OneShot, failed' \subseteq {"saveScan"}
        PROVE  list'.whole /\ Covers(list.devices)'
    <3>1. pc = "saveScan" /\ list' = list /\ failed \subseteq {"saveScan"}
      BY <2>2
    <3> QED
      BY <2>2, <3>1 DEF IInv, Saved, Covers
  <2> QED
    BY <2>1, <2>2 DEF Saved
<1> QED
  BY <1>1, <1>2, <1>3, <1>4 DEF IInv

\* Writing it makes it whole and as the table, unless it fails.
LEMMA SaveWriteStep == ASSUME IInv, SaveWrite PROVE IInv'
<1> USE DEF SaveWrite, Write, calls
<1>1. CallType' /\ Shape' /\ Issuing'
  BY CallsKept DEF Places, Ended
<1>2. CredType' /\ TableType'
  BY DEF IInv, CredType, TableType
<1>3. ListType'
  <2>1. failed' \subseteq {"save", "write", "saveScan", "writeScan"}
    BY DEF IInv, ListType
  <2>2. CASE list' = [whole |-> TRUE, devices |-> devices]
    <3>1. list' \in [whole : BOOLEAN, devices : Seq(Device)] /\ list'.devices = devices
      BY <2>2 DEF IInv, TableType
    <3> QED
      BY <2>1, <3>1 DEF IInv, TableType, ListType
  <2>3. CASE UNCHANGED list
    BY <2>1, <2>3 DEF IInv, ListType
  <2> QED
    BY <2>2, <2>3
<1>4. Saved'
  <2>1. Covers(devices)' /\ pc' \in {"ask", "done"}
    BY DEF IInv, Saved, Covers
  <2>2. ASSUME failed' \subseteq {"saveScan"} PROVE list'.whole /\ Covers(list.devices)'
    <3>1. list' = [whole |-> TRUE, devices |-> devices]
      BY <2>2
    <3> QED
      BY <2>1, <3>1 DEF Covers
  <2> QED
    BY <2>1, <2>2 DEF Saved
<1> QED
  BY <1>1, <1>2, <1>3, <1>4 DEF IInv

\* The scan completes a device that is known, or enters one that is not.
LEMMA BroadcastStep == ASSUME IInv, Broadcast PROVE IInv'
<1> USE DEF calls
<1>1. PICK id \in LocalDevices, ip \in Addresses :
        \/ \E n \in Known(id) : Match(n, ip)
        \/ Known(id) = {} /\ Room /\ devices' = Append(devices, Entry(id, Unset, ip))
  BY DEF Broadcast
<1>2. pc = "scan" /\ UNCHANGED <<opts, cred, file, pc, todo, stack, token, list, fetched, issued,
                                   failed>>
  BY DEF Broadcast
<1>3. CredType' /\ ListType' /\ CallType' /\ Shape' /\ Issuing'
  BY <1>2 DEF IInv, CredType, ListType, CallType, Shape, Issuing
<1>4. /\ devices \in Seq(Device) /\ Len(devices) \in Nat /\ Len(devices) <= Capacity
      /\ DOMAIN devices = 1..Len(devices) /\ fetched \in Seq(STRING) /\ Len(fetched) \in Nat
      /\ Covers(devices)
  BY LenProperties DEF IInv, TableType, Saved
<1>5. TableType' /\ Covers(devices)'
  <2>1. CASE \E n \in Known(id) : Match(n, ip)
    <3>1. PICK n \in 1..Len(devices) : Match(n, ip)
      BY <1>4, <2>1 DEF Known
    <3>2. CASE devices' = devices
      BY <1>2, <1>4, <3>2 DEF TableType, Covers
    <3>3. CASE devices' = [devices EXCEPT ![n].ip = ip]
      <4> DEFINE entry == [devices[n] EXCEPT !.ip = ip]
      <4>1. devices[n] \in Device
        BY <1>4, ElementOfSeq
      <4>2. entry \in Device /\ entry.id = devices[n].id /\ entry.key = devices[n].key
        BY <4>1 DEF Device
      <4>3. devices' = [devices EXCEPT ![n] = entry]
        BY <3>3
      <4> HIDE DEF entry
      <4>4. /\ devices' \in Seq(Device) /\ Len(devices') = Len(devices)
            /\ \A k \in 1..Len(devices) :
                 devices'[k] = IF k = n THEN entry ELSE devices[k]
        BY <1>4, <4>2, <4>3, ExceptSeq
      <4>5. devices' \in Seq(Device) /\ Len(devices') = Len(devices)
        BY <4>4
      <4>6. \A k \in 1..Len(devices) :
              devices'[k].id = devices[k].id /\ devices'[k].key = devices[k].key
        BY <4>2, <4>4
      <4>7. TableType'
        BY <1>2, <1>4, <4>5 DEF TableType
      <4>8. Covers(devices)'
        BY <1>2, <1>4, <4>5, <4>6 DEF Covers
      <4> QED
        BY <4>7, <4>8
    <3> QED
      BY <3>1, <3>2, <3>3 DEF Match
  <2>2. CASE Known(id) = {} /\ Room /\ devices' = Append(devices, Entry(id, Unset, ip))
    <3>1. Entry(id, Unset, ip) \in Device /\ Entry(id, Unset, ip).id = id
      BY WizardAssumption DEF Entry, Device
    <3>2. /\ devices' \in Seq(Device) /\ Len(devices') = Len(devices) + 1
          /\ \A k \in 1..Len(devices) : devices'[k] = devices[k]
          /\ devices'[Len(devices) + 1] = Entry(id, Unset, ip)
      BY <1>4, <2>2, <3>1, AppendProperties
    <3>3. \A k \in 1..Len(devices) : devices[k].id # id
      BY <1>4, <2>2 DEF Known
    <3>4. TableType'
      BY <1>2, <1>4, <2>2, <3>2, WizardAssumption DEF TableType, Room
    <3>5. \A n \in 1..Len(fetched') : n <= Capacity =>
            /\ n <= Len(devices')
            /\ devices'[n].id = fetched'[n] /\ devices'[n].key = "key"
      BY <1>2, <1>4, <3>2 DEF Covers
    <3>6. \A k, l \in 1..Len(devices') : devices'[k].id = devices'[l].id => k = l
      <4>1. \A k \in 1..Len(devices') : k = Len(devices) + 1 \/ k \in 1..Len(devices)
        BY <1>4, <3>2
      <4> QED
        BY <1>4, <3>1, <3>2, <3>3, <4>1 DEF Covers
    <3> QED
      BY <3>4, <3>5, <3>6 DEF Covers
  <2> QED
    BY <1>1, <2>1, <2>2
<1>6. Saved'
  BY <1>2, <1>5 DEF IInv, Saved, Covers, OneShot
<1> QED
  BY <1>3, <1>5, <1>6 DEF IInv

\* The prompts, the question and the end of the scan; a signal at any time.
LEMMA QuietStep == ASSUME IInv, EndOfInput \/ AskScan \/ ScanEnds \/ Kill PROVE IInv'
<1> USE DEF EndOfInput, AskScan, ScanEnds, Kill, calls
<1>1. CallType' /\ Shape' /\ Issuing'
  BY CallsKept DEF Places, Ended
<1>2. CredType' /\ TableType' /\ ListType'
  BY DEF IInv, CredType, TableType, ListType
<1>3. Saved'
  BY DEF IInv, Saved, Covers, Ended, OneShot
<1> QED
  BY <1>1, <1>2, <1>3 DEF IInv

-----------------------------------------------------------------------------
(* The invariant and what follows from it.                                 *)

\* The invariant holds at the start.
LEMMA InvInit == Init => IInv
<1> SUFFICES ASSUME Init PROVE IInv
  OBVIOUS
<1> USE DEF Init
<1>1. CredType
  BY WizardAssumption DEF CredType
<1>2. <<>> \in Seq(Later) /\ <<>> \in Seq(Device) /\ Len(<<>>) = 0
      /\ <<>> \in Seq(Call)
  OBVIOUS
<1>3. CallType
  BY <1>2 DEF CallType, Places
<1>6. Shape
  BY <1>2 DEF Shape
<1>7. Issuing
  <2>1. DOMAIN <<>> = {}
    OBVIOUS
  <2> QED
    BY <2>1 DEF Issuing, IssueLast
<1>4. TableType /\ ListType
  BY <1>2, WizardAssumption DEF TableType, ListType
<1>5. Saved
  BY <1>2 DEF Saved, Covers
<1> QED
  BY <1>1, <1>3, <1>4, <1>5, <1>6, <1>7 DEF IInv

\* Every step keeps the invariant.
LEMMA InvStep == IInv /\ [Next]_vars => IInv'
<1> SUFFICES ASSUME IInv, [Next]_vars PROVE IInv'
  OBVIOUS
<1>1. CASE Program
  BY <1>1, LoadStep, CredentialsStep, RequestStep, SaveOpenStep, SaveWriteStep,
     BroadcastStep, QuietStep DEF Program
<1>2. CASE Kill
  BY <1>2, QuietStep
<1>3. CASE UNCHANGED vars
  BY <1>3 DEF vars, calls, IInv, CredType, CallType, TableType, ListType, Shape, Issuing,
     Saved, Covers, OneShot
<1> QED
  BY <1>1, <1>2, <1>3 DEF Next

\* The invariant always holds.
THEOREM Invariant == Spec => []IInv
<1> QED
  BY InvInit, InvStep, PTL DEF Spec

\* Every variable keeps its type, and the table and the list their bounds.
THEOREM TypeCorrect == Spec => []TypeOK
<1>1. IInv => TypeOK
  <2> SUFFICES ASSUME IInv PROVE TypeOK
    OBVIOUS
  <2>1. todo \in Seq(Ops)
    BY DEF IInv, CallType, Later
  <2> QED
    BY <2>1 DEF IInv, CredType, CallType, TableType, ListType, Places, TypeOK, Call
<1> QED
  BY <1>1, Invariant, PTL

\* The mutual recursion of tuya_api_call_r() and tuya_get_token() ends after one refresh,
\* whatever the cloud says of the tokens it gives out.
THEOREM RecursionBounded == Spec => []CallBounded
<1>1. IInv => CallBounded
  <2> SUFFICES ASSUME IInv PROVE CallBounded
    OBVIOUS
  <2>1. Len(stack) \in {0, 1, 2} /\ DOMAIN stack = 1..Len(stack)
    <3>1. stack \in Seq(Call) /\ Len(stack) <= 2
      BY DEF IInv, CallType, Shape
    <3>2. Len(stack) \in Nat /\ DOMAIN stack = 1..Len(stack)
      BY <3>1, LenProperties
    <3> QED
      BY <3>1, <3>2
  <2>2. \A n \in DOMAIN stack : n \in {1, 2} /\ n <= Len(stack)
    BY <2>1
  <2>3. Frame("token").tries = 0
    BY DEF Frame
  <2> QED
    BY <2>1, <2>2, <2>3 DEF IInv, Shape, CallBounded
<1> QED
  BY <1>1, Invariant, PTL

\* A request that is made again is made with a new token.
THEOREM RetryHasToken == Spec => []RetryCarriesToken
<1>1. IInv => RetryCarriesToken
  BY DEF IInv, Shape, RetryCarriesToken
<1> QED
  BY <1>1, Invariant, PTL

\* -I has its effect once, although a request whose token was refused is made again.
THEOREM IssuedOnce == Spec => []IssuedAtMostOnce
<1>1. IInv => IssuedAtMostOnce
  BY DEF IInv, Issuing, IssuedAtMostOnce
<1> QED
  BY <1>1, Invariant, PTL

\* What the cloud has told about the devices is on disk at the end, as far as there was
\* room for it, also after the scan has completed the table and the list was written
\* again; unless a save has failed that no other has made up for.
THEOREM KeysAreSaved == Spec => []KeysSaved
<1>1. IInv => KeysSaved
  <2> SUFFICES ASSUME IInv, pc = "done", ~OneShot, failed \subseteq {"saveScan"}
               PROVE  /\ list.whole
                      /\ \A n \in DOMAIN fetched : n <= Capacity =>
                           \E k \in DOMAIN list.devices :
                             list.devices[k].id = fetched[n] /\ list.devices[k].key = "key"
                      /\ \A k, l \in DOMAIN list.devices :
                           list.devices[k].id = list.devices[l].id => k = l
    BY DEF KeysSaved
  <2>1. /\ DOMAIN fetched = 1..Len(fetched) /\ Len(fetched) \in Nat
        /\ DOMAIN list.devices = 1..Len(list.devices) /\ Len(list.devices) \in Nat
    BY LenProperties DEF IInv, TableType, ListType
  <2>2. list.whole /\ Covers(list.devices)
    BY DEF IInv, Saved
  <2>3. ASSUME NEW n \in DOMAIN fetched, n <= Capacity
        PROVE  \E k \in DOMAIN list.devices :
                 list.devices[k].id = fetched[n] /\ list.devices[k].key = "key"
    <3>1. /\ n \in 1..Len(list.devices)
          /\ list.devices[n].id = fetched[n] /\ list.devices[n].key = "key"
      BY <2>1, <2>2, <2>3 DEF Covers
    <3> QED
      BY <2>1, <3>1
  <2> QED
    BY <2>1, <2>2, <2>3 DEF Covers
<1> QED
  BY <1>1, Invariant, PTL

-----------------------------------------------------------------------------
(* A run is finite.                                                        *)

\* What a run has still to go through: the places of wizard_main(), at most three
\* requests for each call, and as many for the calls that the first token allows.
Stage == [start |-> 19, creds |-> 18, call |-> 7, save |-> 6, write |-> 5, ask |-> 4,
          scan |-> 3, saveScan |-> 2, writeScan |-> 1, done |-> 0, failed |-> 0, killed |-> 0]
Pending ==
  IF stack = <<>> THEN 0
  ELSE IF Len(stack) = 2 THEN 2
  ELSE IF stack[1].tries > 0 THEN 1
  ELSE IF stack[1].op = "token" THEN 10 ELSE 3
Left == Stage[pc] + 3 * Len(todo) + Pending

\* The entries that a broadcast may still fill in or add.
Addressed == {n \in DOMAIN devices : devices[n].ip # Unset}
Missing == Capacity - Cardinality(Addressed)

\* Left is a natural number.
LEMMA LeftType == ASSUME IInv PROVE Left \in Nat /\ Len(todo) \in Nat
<1>1. pc \in Places /\ Len(todo) \in Nat
  BY LenProperties DEF IInv, CallType
<1>2. Stage[pc] \in Nat
  BY <1>1 DEF Stage, Places, Ended
<1>3. Pending \in Nat
  BY DEF Pending
<1> QED
  BY <1>1, <1>2, <1>3 DEF Left

\* Going on costs what the requests cost that are left.
LEMMA GoOnCost ==
  ASSUME NEW requests \in Seq(Later), GoOn(requests)
  PROVE  Left' <= 7 + 3 * Len(requests)
<1>1. CASE requests # <<>>
  <2>1. /\ Head(requests) \in Later /\ Tail(requests) \in Seq(Later)
        /\ Len(Tail(requests)) = Len(requests) - 1 /\ Len(requests) \in Nat
    BY <1>1, HeadTailProperties, LenProperties
  <2> DEFINE op == Head(requests)
  <2>2. stack' = <<Frame(op)>> /\ todo' = Tail(requests) /\ pc' = "call"
    BY <1>1 DEF GoOn
  <2>3. op \in Later /\ op \in Ops /\ op # "token"
    BY <2>1 DEF Later
  <2> HIDE DEF op
  <2>4. /\ stack' # <<>> /\ Len(stack') = 1
        /\ stack'[1].op # "token" /\ stack'[1].tries = 0
    BY <2>2, <2>3, OneCall
  <2>5. Pending' = 3 /\ Stage[pc'] = 7
    <3>1. ~(0 > 0) /\ 1 # 2
      OBVIOUS
    <3>2. Pending' = 3
      BY <2>4, <3>1, Zenon DEF Pending
    <3> QED
      BY <2>2, <3>2 DEF Stage
  <2> QED
    BY <2>1, <2>2, <2>5 DEF Left
<1>2. CASE requests = <<>>
  <2>1. stack' = <<>> /\ todo' = <<>> /\ pc' \in {"done", "save"}
    BY <1>2 DEF GoOn
  <2>2. Pending' = 0 /\ Len(todo') = 0 /\ Stage[pc'] <= 6 /\ Stage[pc'] \in Nat
    BY <2>1 DEF Pending, Stage
  <2> QED
    BY <1>2, <2>2 DEF Left
<1> QED
  BY <1>1, <1>2

\* Giving up leaves only what will not be done.
LEMMA GiveUpCost == ASSUME GiveUp PROVE Left' = 3 * Len(todo)
<1>1. pc' = "failed" /\ stack' = <<>> /\ todo' = todo
  BY DEF GiveUp
<1>2. Stage[pc'] = 0 /\ Pending' = 0
  BY <1>1 DEF Stage, Pending
<1>3. Left' = 0 + 3 * Len(todo) + 0
  BY <1>1, <1>2 DEF Left
<1> QED
  BY <1>3, LenProperties

\* At most three requests follow a token.
LEMMA ThreeRequests == Len(OneShots) <= 3 /\ Len(<<"uid", "list">>) = 2 /\ Len(OneShots) \in Nat
<1>1. \A op : Len(Asked(op)) \in {0, 1}
  BY DEF Asked
<1>2. /\ Asked("model") \in Seq(Ops) /\ Asked("shadow") \in Seq(Ops)
      /\ Asked("issue") \in Seq(Ops)
  <2>1. \A op \in Ops : Asked(op) \in Seq(Ops)
    BY DEF Asked
  <2> QED
    BY <2>1 DEF Ops
<1>3. /\ Asked("model") \o Asked("shadow") \in Seq(Ops)
      /\ Len(Asked("model") \o Asked("shadow")) = Len(Asked("model")) + Len(Asked("shadow"))
  BY <1>2, ConcatProperties
<1>4. Len(OneShots) = Len(Asked("model")) + Len(Asked("shadow")) + Len(Asked("issue"))
  BY <1>2, <1>3, ConcatProperties DEF OneShots
<1>5. \A x, y, z \in {0, 1} : x + y + z <= 3 /\ x + y + z \in Nat
  OBVIOUS
<1>6. Len(OneShots) <= 3 /\ Len(OneShots) \in Nat
  BY <1>1, <1>4, <1>5, Zenon
<1> QED
  BY <1>6

\* What is left when a call of wizard_main() returns.
LEMMA ReturnsCost ==
  ASSUME IInv, Left' \in Nat, NEW op \in Ops, NEW answer, Returns(op, answer)
  PROVE  Left' <= (IF op = "token" THEN 16 ELSE 7) + 3 * Len(todo)
<1>1. todo \in Seq(Later) /\ Len(todo) \in Nat
  BY LenProperties DEF IInv, CallType
<1>2. CASE op = "token"
  <2>1. GiveUp \/ GoOn(OneShots) \/ GoOn(<<"uid", "list">>)
    BY <1>2 DEF Returns
  <2>2. GiveUp => Left' <= 16 + 3 * Len(todo)
    BY <1>1, GiveUpCost
  <2>3. GoOn(OneShots) => Left' <= 7 + 3 * Len(OneShots)
    BY GoOnCost, OneShotList
  <2>4. GoOn(<<"uid", "list">>) => Left' <= 7 + 3 * 2
    BY GoOnCost, FetchList, ThreeRequests
  <2> QED
    BY <1>1, <1>2, <2>1, <2>2, <2>3, <2>4, ThreeRequests
<1>3. CASE op # "token"
  <2>1. GiveUp \/ GoOn(todo)
    BY <1>3 DEF Returns
  <2>2. GiveUp => Left' <= 7 + 3 * Len(todo)
    BY <1>1, GiveUpCost
  <2> QED
    BY <1>1, <1>3, <2>1, <2>2, GoOnCost
<1> QED
  BY <1>2, <1>3

\* Every answer brings the requests nearer to their end, a refused one too: its
\* refresh and its retry are all that may follow.
LEMMA RequestCost == ASSUME IInv, Left' \in Nat, Request PROVE Left' < Left
<1>1. /\ pc = "call" /\ Len(stack) \in {1, 2} /\ Top = stack[Len(stack)]
      /\ Top.op \in Ops /\ stack[1].op \in Ops /\ Top.tries \in Nat
      /\ Len(stack) = 2 => Top.op = "token"
      /\ Top.op = "token" => ~token
  BY Innermost DEF Request
<1>2. stack # <<>> /\ stack \in Seq(Call)
  BY <1>1 DEF IInv, CallType
<1>3. Left' \in Nat /\ Left \in Nat /\ Len(todo) \in Nat
  BY LeftType
<1>4. Left = 7 + 3 * Len(todo) + Pending /\ Pending \in {1, 2, 3, 10}
  <2>1. Stage[pc] = 7
    BY <1>1 DEF Stage
  <2> QED
    BY <1>2, <2>1 DEF Left, Pending
<1>5. PICK answer \in Answers :
        IF Refreshable(answer) THEN Refresh
        ELSE IF Top.op = "token" THEN TokenReturns(answer)
        ELSE Returns(Top.op, answer) /\ UNCHANGED token
  BY DEF Request
<1>6. CASE Refreshable(answer)
  <2>1. Len(stack) = 1 /\ Top = stack[1] /\ Top.op # "token" /\ Top.tries = 0
    BY <1>1, <1>6 DEF Refreshable
  <2>2. Pending = 3
    <3>1. ~(0 > 0) /\ 1 # 2
      OBVIOUS
    <3> QED
      BY <1>2, <2>1, <3>1, Zenon DEF Pending
  <2>3. UNCHANGED <<pc, todo>> /\ Len(stack') = 2 /\ stack' # <<>>
    <3>1. Refresh
      BY <1>5, <1>6
    <3> DEFINE s == [stack EXCEPT ![Len(stack)].tries = @ + 1]
    <3>2. s \in Seq(Call) /\ Len(s) = 1
      <4>1. [stack[1] EXCEPT !.tries = @ + 1] \in Call
        <5>1. stack[1] \in Call
          BY <1>2, <2>1, ElementOfSeq
        <5> QED
          BY <5>1 DEF Call
      <4> QED
        BY <1>2, <2>1, <4>1, ExceptSeq
    <3>3. stack' = Append(s, Frame("token")) /\ Frame("token") \in Call
      BY <3>1, OneCall DEF Refresh, Ops
    <3> HIDE DEF s
    <3>4. Len(stack') = Len(s) + 1 /\ stack' # <<>>
      BY <3>2, <3>3, AppendProperties
    <3> QED
      BY <3>1, <3>2, <3>4 DEF Refresh
  <2>4. Pending' = 2
    BY <2>3 DEF Pending
  <2>5. Left' = 7 + 3 * Len(todo) + 2
    BY <1>1, <2>3, <2>4 DEF Left, Stage
  <2> QED
    BY <1>3, <1>4, <2>2, <2>5
<1>7. CASE ~Refreshable(answer) /\ Top.op = "token"
  <2>1. TokenReturns(answer)
    BY <1>5, <1>7
  <2>2. CASE Len(stack) = 1
    <3>1. Returns("token", TokenIn(answer)) /\ Top = stack[1] /\ stack[1].tries = 0
      <4>1. Returns("token", TokenIn(answer))
        BY <2>1, <2>2 DEF TokenReturns
      <4>2. Top = stack[1] /\ stack[1].tries <= 1 /\ ~(stack[1].tries > 0)
        BY <1>1, <1>7, <2>2 DEF IInv, Shape
      <4>3. \A x \in Nat : x <= 1 /\ ~(x > 0) => x = 0
        OBVIOUS
      <4> QED
        BY <1>1, <4>1, <4>2, <4>3
    <3>2. Left' <= 16 + 3 * Len(todo)
      BY <3>1, ReturnsCost DEF Ops
    <3>3. Pending = 10
      <4>1. ~(0 > 0) /\ 1 # 2
        OBVIOUS
      <4> QED
        BY <1>2, <1>7, <2>2, <3>1, <4>1, Zenon DEF Pending
    <3> QED
      BY <1>3, <1>4, <3>2, <3>3
  <2>3. CASE Len(stack) = 2 /\ TokenIn(answer) # "ok"
    <3>1. Returns(stack[1].op, "null") /\ stack[1].op # "token"
      BY <2>1, <2>3 DEF TokenReturns, IInv, Shape
    <3>2. Left' <= 7 + 3 * Len(todo)
      BY <1>1, <3>1, ReturnsCost
    <3> QED
      BY <1>3, <1>4, <3>2
  <2>4. CASE Len(stack) = 2 /\ TokenIn(answer) = "ok"
    <3>1. Len(stack) - 1 = 1 /\ Len(stack) - 1 # 0
      BY <2>4
    <3>2. stack' = SubSeq(stack, 1, 1) /\ pc' = pc /\ todo' = todo
      BY <2>1, <2>4, <3>1, ZenonT(30) DEF TokenReturns
    <3>3. Len(stack') = 1 /\ stack'[1] = stack[1] /\ stack' # <<>>
      <4>1. \A k \in 1..1 : stack[k] \in Call
        BY <1>2, <2>4, ElementOfSeq
      <4>2. /\ Len(SubSeq(stack, 1, 1)) = IF 1 <= 1 THEN 1 - 1 + 1 ELSE 0
            /\ \A k \in 1..(1 - 1 + 1) : SubSeq(stack, 1, 1)[k] = stack[1 + k - 1]
        BY <4>1, SubSeqProperties
      <4>3. Len(SubSeq(stack, 1, 1)) = 1 /\ SubSeq(stack, 1, 1)[1] = stack[1]
        BY <4>2
      <4>4. Len(<<>>) = 0 /\ 0 # 1
        BY EmptySeq
      <4> QED
        BY <3>2, <4>3, <4>4
    <3>4. stack[1].tries > 0
      BY <2>4 DEF IInv, Shape
    <3>5. Pending' = 1 /\ Pending = 2
      BY <1>2, <2>4, <3>3, <3>4 DEF Pending
    <3>6. Left' = 7 + 3 * Len(todo) + 1
      BY <1>1, <3>2, <3>5 DEF Left, Stage
    <3> QED
      BY <1>3, <1>4, <3>5, <3>6
  <2> QED
    BY <1>1, <2>2, <2>3, <2>4
<1>8. CASE ~Refreshable(answer) /\ Top.op # "token"
  <2>1. Left' <= 7 + 3 * Len(todo)
    BY <1>1, <1>5, <1>8, ReturnsCost
  <2> QED
    BY <1>3, <1>4, <2>1
<1> QED
  BY <1>6, <1>7, <1>8

\* The rest of a run goes through the places of wizard_main() in their order.
LEMMA PlacesCost ==
  ASSUME IInv,
         Load \/ Credentials \/ EndOfInput \/ SaveOpen \/ SaveWrite \/ AskScan \/ ScanEnds \/ Kill
  PROVE  Left' < Left
<1>1. Len(todo) \in Nat /\ Pending \in Nat
  BY LeftType DEF Pending
<1>2. CASE Credentials
  <2>1. pc = "creds" /\ pc' = "call" /\ todo' = todo /\ stack' = <<Frame("token")>>
    BY <1>2 DEF Credentials
  <2>2. /\ stack' # <<>> /\ Len(stack') = 1
        /\ stack'[1].op = "token" /\ stack'[1].tries = 0
    BY <2>1, OneCall DEF Ops
  <2>3. Pending' = 10
    <3>1. ~(0 > 0) /\ 1 # 2
      OBVIOUS
    <3> QED
      BY <2>2, <3>1, Zenon DEF Pending
  <2>4. Left' = 7 + 3 * Len(todo) + 10 /\ Left = 18 + 3 * Len(todo) + Pending
    BY <2>1, <2>3 DEF Left, Stage
  <2> QED
    BY <1>1, <2>4
<1>3. CASE ~Credentials
  <2>1. todo' = todo /\ stack' = stack
    BY <1>3 DEF Load, EndOfInput, SaveOpen, SaveWrite, AskScan, ScanEnds, Kill, calls
  <2>2. Pending' = Pending
    BY <2>1 DEF Pending
  <2>3. Stage[pc'] < Stage[pc] /\ Stage[pc'] \in Nat /\ Stage[pc] \in Nat
    <3>1. pc \in Places
      BY DEF IInv, CallType
    <3> QED
      BY <1>3, <3>1 DEF Load, EndOfInput, SaveOpen, SaveWrite, AskScan, ScanEnds, Kill,
         Stage, Places, Ended
  <2> QED
    BY <1>1, <2>1, <2>2, <2>3 DEF Left
<1> QED
  BY <1>2, <1>3

\* No table has more addresses than entries.
LEMMA MissingType ==
  ASSUME IInv PROVE Missing \in Nat /\ IsFiniteSet(Addressed)
<1>1. Len(devices) \in Nat /\ Len(devices) <= Capacity /\ DOMAIN devices = 1..Len(devices)
  BY LenProperties DEF IInv, TableType
<1>2. IsFiniteSet(1..Len(devices)) /\ Cardinality(1..Len(devices)) = Len(devices)
  <2>1. /\ IsFiniteSet(1..Len(devices))
        /\ Cardinality(1..Len(devices)) = IF 1 > Len(devices) THEN 0 ELSE Len(devices) - 1 + 1
    BY <1>1, FS_Interval
  <2> QED
    BY <1>1, <2>1
<1>3. Addressed \subseteq 1..Len(devices)
  BY <1>1 DEF Addressed
<1>4. /\ IsFiniteSet(Addressed) /\ Cardinality(Addressed) \in Nat
      /\ Cardinality(Addressed) <= Len(devices)
  BY <1>2, <1>3, FS_Subset, FS_CardinalityType
<1> QED
  BY <1>1, <1>4, WizardAssumption DEF Missing

\* A broadcast that changes the table gives an entry of it an address.
LEMMA BroadcastCost ==
  ASSUME IInv, Broadcast, devices' # devices PROVE Left' = Left /\ Missing' < Missing
<1> USE DEF calls
<1>1. PICK id \in LocalDevices, ip \in Addresses :
        \/ \E n \in Known(id) : Match(n, ip)
        \/ Known(id) = {} /\ Room /\ devices' = Append(devices, Entry(id, Unset, ip))
  BY DEF Broadcast
<1>2. Left' = Left
  <2>1. UNCHANGED <<pc, todo, stack>>
    BY DEF Broadcast
  <2> QED
    BY <2>1 DEF Left, Pending
<1>3. /\ devices \in Seq(Device) /\ Len(devices) \in Nat /\ DOMAIN devices = 1..Len(devices)
      /\ ip # Unset
  BY WizardAssumption, LenProperties DEF IInv, TableType
<1>4. \E n : n \notin Addressed /\ Addressed' = Addressed \cup {n}
  <2>1. CASE \E n \in Known(id) : Match(n, ip)
    <3>1. PICK n \in 1..Len(devices) : Match(n, ip)
      BY <1>3, <2>1 DEF Known
    <3>2. devices[n].ip = Unset /\ devices' = [devices EXCEPT ![n].ip = ip]
      BY <3>1 DEF Match
    <3> DEFINE entry == [devices[n] EXCEPT !.ip = ip]
    <3>3. devices[n] \in Device
      BY <1>3, ElementOfSeq
    <3>4. entry.ip = ip
      BY <3>3 DEF Device
    <3>5. devices' = [devices EXCEPT ![n] = entry]
      BY <3>2
    <3> HIDE DEF entry
    <3>6. /\ DOMAIN devices' = 1..Len(devices)
          /\ \A k \in 1..Len(devices) : devices'[k] = IF k = n THEN entry ELSE devices[k]
      BY <1>3, <3>5
    <3> QED
      BY <1>3, <3>2, <3>4, <3>6 DEF Addressed
  <2>2. CASE Known(id) = {} /\ Room /\ devices' = Append(devices, Entry(id, Unset, ip))
    <3> DEFINE n == Len(devices) + 1
               wider == Append(devices, Entry(id, Unset, ip))
    <3>1. Entry(id, Unset, ip) \in Device /\ Entry(id, Unset, ip).ip = ip
      BY <1>3, WizardAssumption DEF Entry, Device
    <3>2. /\ devices' \in Seq(Device) /\ Len(devices') = n
          /\ \A k \in 1..Len(devices) : devices'[k] = devices[k]
          /\ devices'[n] = Entry(id, Unset, ip)
      <4>1. /\ wider \in Seq(Device) /\ Len(wider) = Len(devices) + 1
            /\ \A k \in 1..Len(devices) : wider[k] = devices[k]
            /\ wider[Len(devices) + 1] = Entry(id, Unset, ip)
        BY <1>3, <3>1, AppendProperties
      <4>2. devices' = wider
        BY <2>2
      <4> HIDE DEF wider
      <4> QED
        BY <4>1, <4>2
    <3>3. DOMAIN devices' = 1..n
      BY <3>2, LenProperties
    <3>4. \A k : k \in 1..n <=> k \in 1..Len(devices) \/ k = n
      BY <1>3
    <3>5. n \notin 1..Len(devices)
      BY <1>3
    <3> HIDE DEF n
    <3> QED
      BY <1>3, <3>1, <3>2, <3>3, <3>4, <3>5 DEF Addressed
  <2> QED
    BY <1>1, <2>1, <2>2
<1>5. Cardinality(Addressed') = Cardinality(Addressed) + 1
  BY <1>4, MissingType, FS_AddElement
<1>6. Cardinality(Addressed) \in Nat
  BY MissingType, FS_CardinalityType
<1> QED
  BY <1>2, <1>5, <1>6, WizardAssumption DEF Missing

\* A run of the wizard has finitely many steps, whatever the cloud answers, however often
\* it calls a token invalid and however many broadcasts come: each step brings it nearer
\* to its end, or fills in one more address in a table that has room for Capacity.
THEOREM RunIsFinite ==
  Spec => /\ [](Left \in Nat /\ Missing \in Nat)
          /\ [][Left' < Left \/ (Left' = Left /\ Missing' < Missing)]_vars
<1>1. IInv => Left \in Nat /\ Missing \in Nat
  BY LeftType, MissingType
<1>2. IInv /\ (Left \in Nat)' /\ [Next]_vars => [Left' < Left \/ (Left' = Left /\ Missing' < Missing)]_vars
  <2> SUFFICES ASSUME IInv, (Left \in Nat)', Next, ~(UNCHANGED vars)
               PROVE  Left' < Left \/ (Left' = Left /\ Missing' < Missing)
    OBVIOUS
  <2>1. CASE Request
    BY <2>1, RequestCost
  <2>2. CASE Broadcast
    <3>1. devices' # devices
      BY <2>2 DEF Broadcast, vars
    <3> QED
      BY <2>2, <3>1, BroadcastCost
  <2>3. CASE Load \/ Credentials \/ EndOfInput \/ SaveOpen \/ SaveWrite \/ AskScan
             \/ ScanEnds \/ Kill
    BY <2>3, PlacesCost
  <2> QED
    BY <2>1, <2>2, <2>3 DEF Next, Program
<1> QED
  BY <1>1, <1>2, Invariant, PTL DEF Spec

=============================================================================
