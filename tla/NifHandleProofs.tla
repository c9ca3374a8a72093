---------------------------- MODULE NifHandleProofs ----------------------------
(***************************************************************************)
(* Theorems about NifHandle: for any number of Erlang processes,           *)
(* references and addresses of handles, and whichever NIFs are called.     *)
(***************************************************************************)
EXTENDS NifHandle, TLAPS

-----------------------------------------------------------------------------
(* The inductive invariant.                                                *)

\* A process inside a NIF has a pointer and still holds its argument, which is
\* therefore not collected.
BusyHolds == \A p \in Procs : pc[p] # "idle" => ref[p] \in held[p] /\ got[p] \in Handles

\* What a process has read is what its resource still has, unless a destroy has
\* cleared it: a resource never gets a second handle.
Points ==
  \A p \in Procs : pc[p] \in {"inside", "clear"} => dev[ref[p]] \in {got[p], NULL}

\* Without an overlap a destroy that is about to clear the pointer is alone on its
\* reference, and the pointer is there.
Alone ==
  ~overlapped => \A p \in Procs : pc[p] = "clear" =>
    /\ dev[ref[p]] = got[p]
    /\ \A q \in Procs : pc[q] \in {"inside", "clear"} /\ ref[q] = ref[p] => q = p

IInv ==
  /\ TypeOK
  /\ BusyHolds
  /\ Points
  /\ Alone
  /\ CallsUseOwnHandle
  /\ DestroyedOnce
  /\ NoLeak

-----------------------------------------------------------------------------
(* Steps that change neither the resources nor the handles.                *)

\* A process returns from a NIF with nothing left to do.
LEMMA ReturnStep ==
  ASSUME IInv, NEW p \in Procs, pc[p] \in {"inside", "convert"}, Return(p),
         strings' = strings \ {p}, UNCHANGED <<made, dev, held, heap, overlapped>>
  PROVE  IInv'
<1> USE DEF Return, IInv
<1>1. TypeOK'
  BY DEF TypeOK
<1>2. BusyHolds' /\ Points'
  BY DEF TypeOK, BusyHolds, Points
<1>3. Alone' /\ CallsUseOwnHandle'
  BY DEF TypeOK, Alone, CallsUseOwnHandle
<1>4. DestroyedOnce'
  BY DEF TypeOK, DestroyedOnce
<1>5. NoLeak'
  BY DEF TypeOK, NoLeak
<1> QED
  BY <1>1, <1>2, <1>3, <1>4, <1>5

\* The library returns, with a string to free or without one.
LEMMA LibraryStep == ASSUME IInv, NEW p \in Procs, LibraryReturns(p) PROVE IInv'
<1> USE DEF LibraryReturns, IInv
<1>1. CASE Return(p) /\ UNCHANGED strings
  <2>1. strings' = strings \ {p}
    BY <1>1 DEF TypeOK
  <2> QED
    BY <1>1, <2>1, ReturnStep
<1>2. CASE strings' = strings \cup {p} /\ pc' = [pc EXCEPT ![p] = "convert"]
           /\ UNCHANGED <<ref, got, call>>
  <2>1. TypeOK'
    BY <1>2 DEF TypeOK
  <2>2. BusyHolds' /\ Points'
    BY <1>2 DEF TypeOK, BusyHolds, Points
  <2>3. Alone' /\ CallsUseOwnHandle'
    BY <1>2 DEF TypeOK, Alone, CallsUseOwnHandle
  <2>4. DestroyedOnce'
    BY <1>2 DEF TypeOK, DestroyedOnce
  <2>5. NoLeak'
    BY <1>2 DEF TypeOK, NoLeak
  <2> QED
    BY <2>1, <2>2, <2>3, <2>4, <2>5
<1> QED
  BY <1>1, <1>2

\* The string is freed.
LEMMA ConvertStep == ASSUME IInv, NEW p \in Procs, Convert(p) PROVE IInv'
BY ReturnStep DEF Convert

\* A reference is sent to another process, which can then call NIFs on it too.
LEMMA ShareStep == ASSUME IInv, NEW p \in Procs, NEW q \in Procs, Share(p, q) PROVE IInv'
<1> USE DEF Share, place, IInv
<1>1. TypeOK'
  BY DEF TypeOK
<1>2. BusyHolds' /\ Points'
  BY DEF TypeOK, BusyHolds, Points
<1>3. Alone' /\ CallsUseOwnHandle' /\ DestroyedOnce' /\ NoLeak'
  BY DEF TypeOK, Alone, CallsUseOwnHandle, DestroyedOnce, NoLeak
<1> QED
  BY <1>1, <1>2, <1>3

\* The argument of a NIF that is under way is not dropped.
LEMMA DropStep == ASSUME IInv, NEW p \in Procs, Drop(p) PROVE IInv'
<1> USE DEF Drop, place, IInv
<1>1. TypeOK'
  BY DEF TypeOK
<1>2. BusyHolds' /\ Points'
  BY DEF TypeOK, BusyHolds, Points, Busy
<1>3. Alone' /\ CallsUseOwnHandle' /\ DestroyedOnce' /\ NoLeak'
  BY DEF TypeOK, Alone, CallsUseOwnHandle, DestroyedOnce, NoLeak
<1> QED
  BY <1>1, <1>2, <1>3

-----------------------------------------------------------------------------
(* Calls and destroys begin.                                               *)

\* A call that begins while a destroy of its reference is under way is an overlap.
LEMMA EnterStep == ASSUME IInv, NEW p \in Procs, Enter(p) PROVE IInv'
<1> USE DEF IInv
<1>1. PICK r \in Refs, c \in Calls :
        /\ GetDev(p, r, "inside")
        /\ call' = [call EXCEPT ![p] = c]
        /\ overlapped' = (overlapped \/ \E q \in Procs : pc[q] = "clear" /\ ref[q] = r)
  BY DEF Enter
<1>2. UNCHANGED <<made, dev, held, heap, strings>>
  BY DEF Enter
<1>3. r \in made /\ dev[r] \in Handles
  BY <1>1 DEF GetDev, TypeOK
<1>4. TypeOK'
  BY <1>1, <1>2, <1>3 DEF GetDev, TypeOK
<1>5. BusyHolds' /\ Points'
  BY <1>1, <1>2, <1>3 DEF GetDev, TypeOK, BusyHolds, Points
<1>6. CallsUseOwnHandle'
  BY <1>1, <1>2, <1>3 DEF GetDev, TypeOK, CallsUseOwnHandle, DestroyedOnce
<1>7. Alone'
  BY <1>1, <1>2, <1>3 DEF GetDev, TypeOK, Alone
<1>8. DestroyedOnce'
  BY <1>1, <1>2 DEF GetDev, TypeOK, DestroyedOnce
<1>9. NoLeak'
  BY <1>1, <1>2 DEF GetDev, TypeOK, NoLeak
<1> QED
  BY <1>4, <1>5, <1>6, <1>7, <1>8, <1>9

\* A destroy that begins while any call or destroy on its reference is under way is one.
LEMMA DestroyStep == ASSUME IInv, NEW p \in Procs, Destroy(p) PROVE IInv'
<1> USE DEF IInv
<1>1. PICK r \in Refs :
        /\ GetDev(p, r, "clear")
        /\ overlapped' =
             (overlapped \/ \E q \in Procs : pc[q] \in {"inside", "clear"} /\ ref[q] = r)
  BY DEF Destroy
<1>2. UNCHANGED <<made, dev, held, heap, strings, call>>
  BY DEF Destroy
<1>3. r \in made /\ dev[r] \in Handles
  BY <1>1 DEF GetDev, TypeOK
<1>4. TypeOK'
  BY <1>1, <1>2, <1>3 DEF GetDev, TypeOK
<1>5. BusyHolds' /\ Points'
  BY <1>1, <1>2, <1>3 DEF GetDev, TypeOK, BusyHolds, Points
<1>6. CallsUseOwnHandle'
  BY <1>1, <1>2 DEF GetDev, TypeOK, CallsUseOwnHandle
<1>7. Alone'
  BY <1>1, <1>2, <1>3 DEF GetDev, TypeOK, Alone
<1>8. DestroyedOnce'
  BY <1>1, <1>2 DEF GetDev, TypeOK, DestroyedOnce
<1>9. NoLeak'
  BY <1>1, <1>2 DEF GetDev, TypeOK, NoLeak
<1> QED
  BY <1>4, <1>5, <1>6, <1>7, <1>8, <1>9

-----------------------------------------------------------------------------
(* Handles are made, passed on and destroyed.                              *)

\* A new handle is at an address that nothing has.
LEMMA MakeStep ==
  ASSUME IInv, NEW p \in Procs, NEW h \in Handles \ heap, NEW r \in Refs \ made,
         MakeDev(p, r, h), UNCHANGED <<strings, place, overlapped>>
  PROVE  IInv'
<1> USE NullAssumption DEF MakeDev, place, IInv
<1>1. TypeOK'
  BY DEF TypeOK
<1>2. \A q \in Procs : pc[q] # "idle" => ref[q] # r
  BY DEF TypeOK, BusyHolds
<1>3. BusyHolds' /\ Points'
  BY <1>2 DEF TypeOK, BusyHolds, Points
<1>4. Alone' /\ CallsUseOwnHandle'
  BY <1>2 DEF TypeOK, Alone, CallsUseOwnHandle
<1>5. DestroyedOnce'
  BY DEF TypeOK, DestroyedOnce
<1>6. NoLeak'
  BY DEF TypeOK, NoLeak
<1> QED
  BY <1>1, <1>3, <1>4, <1>5, <1>6

\* create without memory for the handle or for the resource changes nothing.
LEMMA CreateStep == ASSUME IInv, NEW p \in Procs, Create(p) PROVE IInv'
<1>1. CASE UNCHANGED <<made, dev, held, heap>>
  <2>1. UNCHANGED <<strings, pc, ref, got, call, overlapped>>
    BY DEF Create, place
  <2> QED
    BY <1>1, <2>1 DEF IInv, TypeOK, BusyHolds, Points, Alone, CallsUseOwnHandle,
       DestroyedOnce, NoLeak
<1>2. CASE \E h \in Handles \ heap : \E r \in Refs \ made : MakeDev(p, r, h)
  BY <1>2, MakeStep DEF Create
<1> QED
  BY <1>1, <1>2 DEF Create, NoResource

\* The pointer that a destroy clears is the only way to the handle, so that the handle
\* is this destroy's from now on.
LEMMA ClearStep == ASSUME IInv, NEW p \in Procs, Clear(p) PROVE IInv'
<1> USE NullAssumption DEF Clear, IInv
<1>1. ref[p] \in made /\ ref[p] \in Refs /\ got[p] \in Handles
  BY DEF TypeOK, BusyHolds
<1>2. TypeOK'
  BY <1>1 DEF TypeOK
<1>3. BusyHolds' /\ Points'
  BY <1>1 DEF TypeOK, BusyHolds, Points
<1>4. ASSUME ~overlapped, NEW q \in Procs, q # p, pc[q] \in {"inside", "clear"}
      PROVE  ref[q] # ref[p] /\ ref[q] \in Refs
  BY <1>4 DEF Alone, TypeOK, BusyHolds
<1>5. Alone' /\ CallsUseOwnHandle'
  BY <1>1, <1>4 DEF TypeOK, Alone, CallsUseOwnHandle
<1>6. DestroyedOnce'
  <2> SUFFICES ASSUME ~overlapped PROVE DestroyedOnce'
    BY DEF DestroyedOnce
  <2>1. dev[ref[p]] = got[p]
    BY DEF Alone
  <2>2. ASSUME NEW r \in made, dev'[r] # NULL
        PROVE  r # ref[p] /\ dev'[r] = dev[r] /\ dev[r] # got[p]
    BY <1>1, <2>1, <2>2 DEF TypeOK, DestroyedOnce
  <2>3. \A r \in made : dev'[r] # NULL =>
          dev'[r] \in heap' /\ \A s \in made' : dev'[s] = dev'[r] => s = r
    BY <2>2 DEF DestroyedOnce
  <2>4. got[p] \in heap
    BY <1>1, <2>1 DEF DestroyedOnce
  <2>5. \A q \in Procs : pc'[q] = "free" => got'[q] \in heap'
    BY <2>4 DEF TypeOK, DestroyedOnce
  <2>6. ASSUME NEW q \in Procs, pc'[q] = "free"
        PROVE  \A r \in made : dev'[r] # got'[q]
    <3>1. got[q] # NULL
      BY <2>6 DEF TypeOK, BusyHolds
    <3>2. CASE q = p
      BY <2>2, <3>1, <3>2
    <3>3. CASE q # p
      BY <2>2, <2>6, <3>1, <3>3 DEF TypeOK, DestroyedOnce
    <3> QED
      BY <3>2, <3>3
  <2>7. ASSUME NEW q \in Procs, NEW o \in Procs, pc'[q] = "free", pc'[o] = "free",
               got'[o] = got'[q]
        PROVE  o = q
    BY <1>1, <2>1, <2>7 DEF TypeOK, DestroyedOnce
  <2> QED
    BY <2>3, <2>5, <2>6, <2>7 DEF DestroyedOnce
<1>7. NoLeak'
  <2> SUFFICES ASSUME NEW h \in heap
               PROVE  \/ \E r \in made : dev'[r] = h
                      \/ \E q \in Procs : pc'[q] = "free" /\ got'[q] = h
    BY DEF NoLeak
  <2>1. CASE \E r \in made : dev[r] = h
    <3>1. PICK r \in made : dev[r] = h
      BY <2>1
    <3>2. CASE r = ref[p]
      <4>1. got[p] = h
        BY <3>1, <3>2 DEF Points, TypeOK
      <4> QED
        BY <4>1 DEF TypeOK
    <3>3. CASE r # ref[p]
      BY <3>1, <3>3 DEF TypeOK
    <3> QED
      BY <3>2, <3>3
  <2>2. CASE \E q \in Procs : pc[q] = "free" /\ got[q] = h
    BY <2>2 DEF TypeOK
  <2> QED
    BY <2>1, <2>2 DEF NoLeak
<1> QED
  BY <1>2, <1>3, <1>5, <1>6, <1>7

\* tuya_destroy() of a handle that nothing else has.
LEMMA FreeStep == ASSUME IInv, NEW p \in Procs, Free(p) PROVE IInv'
<1> USE DEF Free, Return, IInv
<1>1. TypeOK'
  BY DEF TypeOK
<1>2. BusyHolds' /\ Points'
  BY DEF TypeOK, BusyHolds, Points
<1>3. Alone'
  BY DEF TypeOK, Alone
<1>4. CallsUseOwnHandle'
  BY DEF TypeOK, BusyHolds, CallsUseOwnHandle, DestroyedOnce
<1>5. DestroyedOnce'
  BY DEF TypeOK, DestroyedOnce
<1>6. NoLeak'
  BY DEF TypeOK, NoLeak
<1> QED
  BY <1>1, <1>2, <1>3, <1>4, <1>5, <1>6

\* dev_dtor() runs when no process is inside a NIF on the resource.
LEMMA CollectStep == ASSUME IInv, NEW r \in Refs, Collect(r) PROVE IInv'
<1> USE NullAssumption DEF Collect, Unheld, place, IInv
<1>1. TypeOK'
  BY DEF TypeOK
<1>2. \A q \in Procs : pc[q] # "idle" => ref[q] \in made /\ ref[q] # r
  BY DEF TypeOK, BusyHolds
<1>3. BusyHolds' /\ Points'
  BY <1>2 DEF TypeOK, BusyHolds, Points
<1>4. Alone'
  BY <1>2 DEF TypeOK, Alone
<1>5. CallsUseOwnHandle'
  BY <1>2 DEF TypeOK, CallsUseOwnHandle, DestroyedOnce
<1>6. DestroyedOnce'
  BY DEF TypeOK, DestroyedOnce
<1>7. NoLeak'
  BY DEF TypeOK, NoLeak
<1> QED
  BY <1>1, <1>3, <1>4, <1>5, <1>6, <1>7

-----------------------------------------------------------------------------
(* The invariant and what follows from it.                                 *)

\* The invariant holds before the first call.
LEMMA InvInit == Init => IInv
BY DEF Init, IInv, TypeOK, BusyHolds, Points, Alone, CallsUseOwnHandle, DestroyedOnce, NoLeak

\* Every step keeps the invariant.
LEMMA InvStep == IInv /\ [Next]_vars => IInv'
<1> SUFFICES ASSUME IInv, [Next]_vars PROVE IInv'
  OBVIOUS
<1>1. CASE UNCHANGED vars
  BY <1>1 DEF vars, place, IInv, TypeOK, BusyHolds, Points, Alone, CallsUseOwnHandle,
     DestroyedOnce, NoLeak
<1>2. CASE \E p \in Procs : \/ Create(p) \/ Drop(p) \/ Enter(p) \/ LibraryReturns(p)
                            \/ Convert(p) \/ Destroy(p) \/ Clear(p) \/ Free(p)
                            \/ \E q \in Procs : Share(p, q)
  BY <1>2, CreateStep, DropStep, EnterStep, LibraryStep, ConvertStep, DestroyStep,
     ClearStep, FreeStep, ShareStep
<1>3. CASE \E r \in Refs : Collect(r)
  BY <1>3, CollectStep
<1> QED
  BY <1>1, <1>2, <1>3 DEF Next

\* The invariant always holds.
THEOREM Invariant == Spec => []IInv
<1> QED
  BY InvInit, InvStep, PTL DEF Spec

\* Every variable keeps its type: a string of the library is to be freed exactly while
\* its NIF converts it, and nobody holds a reference that was collected.
THEOREM TypeCorrect == Spec => []TypeOK
<1>1. IInv => TypeOK
  BY DEF IInv
<1> QED
  BY <1>1, Invariant, PTL

\* A NIF uses a handle that is allocated and its own reference's, for any number of
\* processes, until a destroy overlaps another call on the same reference.
THEOREM CallsAreOwn == Spec => []CallsUseOwnHandle
<1>1. IInv => CallsUseOwnHandle
  BY DEF IInv
<1> QED
  BY <1>1, Invariant, PTL

\* Under the same condition no handle is destroyed twice, although addresses are used
\* again and dev_dtor() destroys what destroy has not.
THEOREM NoDoubleDestroy == Spec => []DestroyedOnce
<1>1. IInv => DestroyedOnce
  BY DEF IInv
<1> QED
  BY <1>1, Invariant, PTL

\* And whatever overlaps, no handle is lost.
THEOREM NothingLeaks == Spec => []NoLeak
<1>1. IInv => NoLeak
  BY DEF IInv
<1> QED
  BY <1>1, Invariant, PTL

-----------------------------------------------------------------------------
(* What a step may not do to a handle.                                     *)

\* A handle is destroyed by the last that has to do with it: a process that is in a NIF
\* with it, or about to clear or free it, is the one whose destroy ends here.
FreedByLast ==
  \A h \in heap \ heap' : ~overlapped =>
    \A p \in Procs : pc[p] \in {"inside", "clear", "free"} /\ got[p] = h =>
      pc[p] = "free" /\ pc'[p] = "idle"

\* No process has a way to the handle.
Unreachable(h) == \A p \in Procs : \A r \in held[p] : dev[r] # h

\* A handle that nobody has a way to stays so until it is destroyed: no message and no
\* new reference brings it back.
StaysUnreachable == \A h \in heap : Unreachable(h) => h \notin heap' \/ Unreachable(h)'

\* The destructor finds no process with the handle: its reference would still be held.
LEMMA CollectFrees ==
  ASSUME IInv, NEW r \in Refs, Collect(r)  PROVE FreedByLast
<1> SUFFICES ASSUME NEW h \in heap \ heap', ~overlapped,
                    NEW p \in Procs, pc[p] \in {"inside", "clear", "free"}, got[p] = h
             PROVE  FALSE
  BY DEF FreedByLast
<1>1. r \in made /\ Unheld(r) /\ h = dev[r] /\ h # NULL
  BY NullAssumption DEF Collect, IInv, TypeOK
<1>2. CASE pc[p] = "free"
  BY <1>1, <1>2 DEF IInv, DestroyedOnce
<1>3. CASE pc[p] \in {"inside", "clear"}
  <2>1. ref[p] \in held[p] /\ ref[p] \in made
    BY <1>3 DEF IInv, TypeOK, BusyHolds
  <2>2. dev[ref[p]] = h
    BY <1>3 DEF IInv, Alone, CallsUseOwnHandle
  <2>3. ref[p] = r
    BY <1>1, <2>1, <2>2 DEF IInv, DestroyedOnce
  <2> QED
    BY <1>1, <2>1, <2>3 DEF Unheld
<1> QED
  BY <1>2, <1>3

\* A destroy frees what no resource has any more, and nobody else.
LEMMA FreeFrees ==
  ASSUME IInv, NEW q \in Procs, Free(q)  PROVE FreedByLast
<1> SUFFICES ASSUME NEW h \in heap \ heap', ~overlapped,
                    NEW p \in Procs, pc[p] \in {"inside", "clear", "free"}, got[p] = h
             PROVE  pc[p] = "free" /\ pc'[p] = "idle"
  BY DEF FreedByLast
<1>1. pc[q] = "free" /\ got[q] = h /\ pc'[q] = "idle"
  BY DEF Free, Return, IInv, TypeOK
<1>2. CASE pc[p] = "free"
  <2>1. p = q
    BY <1>1, <1>2 DEF IInv, DestroyedOnce
  <2> QED
    BY <1>1, <2>1
<1>3. CASE pc[p] \in {"inside", "clear"}
  <2>1. ref[p] \in made /\ dev[ref[p]] = h
    BY <1>3 DEF IInv, TypeOK, BusyHolds, Alone, CallsUseOwnHandle
  <2> QED
    BY <1>1, <2>1 DEF IInv, DestroyedOnce
<1> QED
  BY <1>2, <1>3

\* Under the same condition a handle is never destroyed while a call of another process
\* still works with it: the pointer that a NIF has read stays good until it returns,
\* with no lock. And, whatever overlaps, one that is out of reach stays so.
THEOREM DestroyedByLast == Spec => [][FreedByLast /\ StaysUnreachable]_vars
<1>1. ASSUME IInv, [Next]_vars  PROVE [FreedByLast]_vars
  <2>1. ASSUME NEW p \in Procs,
               \/ Create(p) \/ Drop(p) \/ Enter(p) \/ LibraryReturns(p)
               \/ Convert(p) \/ Destroy(p) \/ Clear(p) \/ \E q \in Procs : Share(p, q)
        PROVE  heap \subseteq heap'
    BY <2>1 DEF Create, NoResource, MakeDev, Drop, Enter, LibraryReturns, Convert, Destroy,
       Clear, Share
  <2>2. heap \subseteq heap' => FreedByLast
    BY DEF FreedByLast
  <2> QED
    BY <1>1, <2>1, <2>2, CollectFrees, FreeFrees DEF Next
<1>2. ASSUME IInv, [Next]_vars  PROVE [StaysUnreachable]_vars
  <2> SUFFICES ASSUME Next, NEW h \in heap, Unreachable(h), h \in heap'
               PROVE  Unreachable(h)'
    BY <1>2 DEF StaysUnreachable
  <2> USE DEF Unreachable
  <2>0. h # NULL /\ TypeOK
    BY <1>2, NullAssumption DEF IInv, TypeOK
  <2>1. ASSUME NEW p \in Procs, Create(p)  PROVE Unreachable(h)'
    <3>1. CASE UNCHANGED <<made, dev, held, heap>>
      BY <3>1
    <3>2. ASSUME NEW g \in Handles \ heap, NEW r \in Refs \ made, MakeDev(p, r, g)
          PROVE  Unreachable(h)'
      BY <2>0, <3>2 DEF MakeDev, TypeOK
    <3> QED
      BY <2>1, <3>1, <3>2 DEF Create, NoResource
  <2>2. ASSUME NEW p \in Procs, NEW q \in Procs, Share(p, q)  PROVE Unreachable(h)'
    BY <2>0, <2>2 DEF Share, TypeOK
  <2>3. ASSUME NEW p \in Procs, Drop(p)  PROVE Unreachable(h)'
    BY <2>0, <2>3 DEF Drop, TypeOK
  <2>4. ASSUME NEW p \in Procs,
               Enter(p) \/ LibraryReturns(p) \/ Convert(p) \/ Destroy(p) \/ Free(p)
        PROVE  Unreachable(h)'
    BY <2>4 DEF Enter, LibraryReturns, Convert, Destroy, Free
  <2>5. ASSUME NEW p \in Procs, Clear(p)  PROVE Unreachable(h)'
    BY <2>0, <2>5 DEF Clear, TypeOK
  <2>6. ASSUME NEW r \in Refs, Collect(r)  PROVE Unreachable(h)'
    BY <2>0, <2>6 DEF Collect, TypeOK
  <2> QED
    BY <2>1, <2>2, <2>3, <2>4, <2>5, <2>6 DEF Next
<1> QED
  BY <1>1, <1>2, Invariant, PTL DEF Spec

=============================================================================
