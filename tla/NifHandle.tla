----------------------------- MODULE NifHandle -----------------------------
(***************************************************************************)
(* bindings/erlang/seatuya_nif.c (and its copy for Gleam): device handles  *)
(* of the library behind references that Erlang processes hold and share.  *)
(*                                                                         *)
(* The NIFs run on the scheduler threads of the processes that call them,  *)
(* so calls of different processes interleave.  A resource holds a pointer *)
(* r->dev and no lock: a NIF reads the pointer once and uses it until the  *)
(* library returns.  Addresses of handles are used again after a destroy.  *)
(***************************************************************************)
EXTENDS Naturals

CONSTANTS
  Procs,    \* Erlang processes
  Refs,     \* resources, reused when they have been collected
  Handles,  \* addresses of tuya_device_t, NULL excepted
  NULL,
  Calls     \* the NIFs called

(* The NIFs on a handle, all but destroy, in the groups of the source.  Each  *)
(* one reads r->dev, gives badarg when it is NULL or an argument is not what  *)
(* it should be, and calls its function of the library.                       *)
Credentials == {"set_credentials"}
Getters == {"get_device_id", "get_local_key", "get_ip"}
Connecting == {"connect", "disconnect", "is_connected", "reconnect"}
Retrying == {"set_retry_limit", "set_retry_delay", "get_retry_limit", "get_retry_delay"}
Negotiating == {"negotiate_session", "negotiate_session_start",
                "negotiate_session_finalize"}
States == {"get_protocol", "get_session_state", "get_socket_state", "get_last_error"}
Async == {"set_async_mode", "is_socket_readable", "is_socket_writable",
          "set_session_ready"}
Building == {"build_message"}
Sockets == {"send", "receive"}
Device22 == {"set_device22", "is_device22"}

\* The library returns a string, or NULL, and the NIF frees it.
Coding == {"decode_message", "generate_payload"}
SettingValues == {"set_value_bool", "set_value_int", "set_value_string",
                  "set_value_float"}
Switching == {"turn_on", "turn_off"}
Polling == {"status", "heartbeat"}

StringCalls == Coding \cup SettingValues \cup Switching \cup Polling
PlainCalls == Credentials \cup Getters \cup Connecting \cup Retrying \cup Negotiating
  \cup States \cup Async \cup Building \cup Sockets \cup Device22

ASSUME NullAssumption == NULL \notin Handles /\ NULL \notin Refs
ASSUME CallAssumption == Calls \subseteq StringCalls \cup PlainCalls

VARIABLES
  made, dev,      \* the resources there are, and r->dev
  held,           \* the references that a process has, or still can get from itself
  heap,           \* the handles allocated
  strings,        \* processes inside a NIF with a string of the library to free
  pc, ref, got,   \* where a process is in a NIF, its argument, the pointer it read
  call,           \* the NIF
  overlapped      \* a destroy and another call on the same reference overlapped

place == <<pc, ref, got, call>>
vars == <<made, dev, held, heap, strings, place, overlapped>>

Busy(p, r) == pc[p] # "idle" /\ ref[p] = r

\* Back to Erlang.
Return(p) ==
  /\ pc' = [pc EXCEPT ![p] = "idle"]
  /\ ref' = [ref EXCEPT ![p] = NULL]
  /\ got' = [got EXCEPT ![p] = NULL]
  /\ call' = [call EXCEPT ![p] = "none"]

-----------------------------------------------------------------------------
(* Making and dropping references.                                         *)

\* Mutant: a handle without a resource is kept.
NoResourceLeaked(h) == heap' = heap \cup {h} /\ UNCHANGED <<made, dev, held>>

\* make_dev() without memory for the resource: the handle is destroyed again, and
\* the caller gets {ok, nil}.
NoResource(h) == UNCHANGED <<made, dev, held, heap>>

MakeDev(p, r, h) ==
  /\ made' = made \cup {r}
  /\ dev' = [dev EXCEPT ![r] = h]
  /\ held' = [held EXCEPT ![p] = @ \cup {r}]
  /\ heap' = heap \cup {h}

\* create and alloc, which may get no handle: {error, create_failed}.
Create(p) ==
  /\ pc[p] = "idle"
  /\ \/ UNCHANGED <<made, dev, held, heap>>
     \/ \E h \in Handles \ heap : NoResource(h) \/ \E r \in Refs \ made : MakeDev(p, r, h)
  /\ UNCHANGED <<strings, place, overlapped>>

\* A reference is sent to another process.
Share(p, q) ==
  /\ pc[p] = "idle"
  /\ \E r \in held[p] : held' = [held EXCEPT ![q] = @ \cup {r}]
  /\ UNCHANGED <<made, dev, heap, strings, place, overlapped>>

\* The garbage collector finds that a process has no reference any more, or the
\* process has ended.  The arguments of a NIF are kept until it returns.
Drop(p) ==
  /\ \E r \in held[p] : ~Busy(p, r) /\ held' = [held EXCEPT ![p] = @ \ {r}]
  /\ UNCHANGED <<made, dev, heap, strings, place, overlapped>>

Unheld(r) == \A p \in Procs : r \notin held[p]

\* dev_dtor(): the last reference is gone.
Collect(r) ==
  /\ r \in made /\ Unheld(r)
  /\ heap' = heap \ {dev[r]}
  /\ dev' = [dev EXCEPT ![r] = NULL]
  /\ made' = made \ {r}
  /\ UNCHANGED <<held, strings, place, overlapped>>

-----------------------------------------------------------------------------
(* Calls.                                                                  *)

\* get_dev(): the pointer is read, and NULL gives badarg (or ok, for destroy).
GetDev(p, r, next) ==
  /\ pc[p] = "idle" /\ r \in held[p]
  /\ dev[r] # NULL
  /\ pc' = [pc EXCEPT ![p] = next]
  /\ ref' = [ref EXCEPT ![p] = r]
  /\ got' = [got EXCEPT ![p] = dev[r]]

Enter(p) ==
  /\ \E r \in Refs, c \in Calls :
       /\ GetDev(p, r, "inside")
       /\ call' = [call EXCEPT ![p] = c]
       /\ overlapped' = (overlapped \/ \E q \in Procs : pc[q] = "clear" /\ ref[q] = r)
  /\ UNCHANGED <<made, dev, held, heap, strings>>

\* The library function returns; a string of it is still to be freed.
LibraryReturns(p) ==
  /\ pc[p] = "inside"
  /\ \/ Return(p) /\ UNCHANGED strings
     \/ /\ call[p] \in StringCalls
        /\ strings' = strings \cup {p}
        /\ pc' = [pc EXCEPT ![p] = "convert"]
        /\ UNCHANGED <<ref, got, call>>
  /\ UNCHANGED <<made, dev, held, heap, overlapped>>

\* Mutant: the string is not freed.
ConvertOnly(p) ==
  /\ pc[p] = "convert"
  /\ Return(p)
  /\ UNCHANGED <<made, dev, held, heap, strings, overlapped>>

\* enif_make_string() and tuya_free_string(), and take_string().
Convert(p) ==
  /\ pc[p] = "convert"
  /\ strings' = strings \ {p}
  /\ Return(p)
  /\ UNCHANGED <<made, dev, held, heap, overlapped>>

\* destroy reads the pointer, clears the resource's, and destroys the handle.
Destroy(p) ==
  /\ \E r \in Refs :
       /\ GetDev(p, r, "clear")
       /\ overlapped' =
            (overlapped \/ \E q \in Procs : pc[q] \in {"inside", "clear"} /\ ref[q] = r)
  /\ UNCHANGED <<made, dev, held, heap, strings, call>>

\* Mutant: the resource keeps the pointer.
ClearNothing(p) ==
  /\ pc[p] = "clear"
  /\ pc' = [pc EXCEPT ![p] = "free"]
  /\ UNCHANGED <<made, dev, held, heap, strings, ref, got, call, overlapped>>

Clear(p) ==
  /\ pc[p] = "clear"
  /\ dev' = [dev EXCEPT ![ref[p]] = NULL]
  /\ pc' = [pc EXCEPT ![p] = "free"]
  /\ UNCHANGED <<made, held, heap, strings, ref, got, call, overlapped>>

\* tuya_destroy().
Free(p) ==
  /\ pc[p] = "free"
  /\ heap' = heap \ {got[p]}
  /\ Return(p)
  /\ UNCHANGED <<made, dev, held, strings, overlapped>>

Init ==
  /\ made = {} /\ dev = [r \in Refs |-> NULL]
  /\ held = [p \in Procs |-> {}]
  /\ heap = {} /\ strings = {}
  /\ pc = [p \in Procs |-> "idle"]
  /\ ref = [p \in Procs |-> NULL] /\ got = [p \in Procs |-> NULL]
  /\ call = [p \in Procs |-> "none"]
  /\ overlapped = FALSE

Next ==
  \/ \E p \in Procs : \/ Create(p) \/ Drop(p) \/ Enter(p) \/ LibraryReturns(p)
                      \/ Convert(p) \/ Destroy(p) \/ Clear(p) \/ Free(p)
                      \/ \E q \in Procs : Share(p, q)
  \/ \E r \in Refs : Collect(r)

\* A NIF runs to its end, and a resource without references is destroyed at once.
Fairness ==
  /\ \A p \in Procs : WF_vars(Clear(p)) /\ WF_vars(Free(p))
  /\ \A r \in Refs : WF_vars(Collect(r))

Spec == Init /\ [][Next]_vars /\ Fairness

-----------------------------------------------------------------------------
(* Properties.                                                             *)

\* Every variable has its type, and resources and terms are those there are.
TypeOK ==
  /\ made \subseteq Refs /\ heap \subseteq Handles
  /\ dev \in [Refs -> Handles \cup {NULL}]
  /\ held \in [Procs -> SUBSET made]
  /\ strings = {p \in Procs : pc[p] = "convert"}
  /\ pc \in [Procs -> {"idle", "inside", "convert", "clear", "free"}]
  /\ ref \in [Procs -> Refs \cup {NULL}]
  /\ got \in [Procs -> Handles \cup {NULL}]
  /\ call \in [Procs -> Calls \cup {"none"}]
  /\ overlapped \in BOOLEAN

\* As long as no destroy overlaps another call on its reference, a process inside
\* the library has a handle that is allocated and that its own reference holds,
\* although r->dev was read once and nothing is locked.
CallsUseOwnHandle ==
  ~overlapped => \A p \in Procs :
    pc[p] = "inside" => got[p] \in heap /\ dev[ref[p]] = got[p]

\* Under the same condition every handle is destroyed once: no two resources, no two
\* destroys, and no resource and destroy have the same one, and all are allocated.
DestroyedOnce ==
  ~overlapped =>
    /\ \A r \in made : dev[r] # NULL =>
         /\ dev[r] \in heap
         /\ \A s \in made : dev[s] = dev[r] => s = r
    /\ \A p \in Procs : pc[p] = "free" =>
         /\ got[p] \in heap
         /\ \A r \in made : dev[r] # got[p]
         /\ \A q \in Procs : pc[q] = "free" /\ got[q] = got[p] => q = p

\* A handle is never lost, whatever overlaps: a resource has it, or a destroy that
\* will free it.
NoLeak ==
  \A h \in heap : \/ \E r \in made : dev[r] = h
                  \/ \E p \in Procs : pc[p] = "free" /\ got[p] = h

\* A handle that no reference leads to any more is destroyed, by the destroy under
\* way or by dev_dtor().
Reclaimed ==
  \A h \in Handles :
    (h \in heap /\ \A p \in Procs : \A r \in held[p] : dev[r] # h) ~> h \notin heap

=============================================================================
