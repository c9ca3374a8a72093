------------------------------- MODULE Wizard -------------------------------
(***************************************************************************)
(* examples/wizard-common.c: a run of seatuya-wizard, from the credentials *)
(* over the requests to the Tuya cloud to the device list on disk, with    *)
(* the scan of the local network that completes it.                        *)
(*                                                                         *)
(* tuya_api_call_r() and tuya_get_token() call each other: the calls under *)
(* way are a stack of frames.  A request is one step, which need not come: *)
(* it has no time limit.  It or its answer may be lost, and the cloud may  *)
(* call a token invalid whenever it likes.  The field "key" of the         *)
(* credentials stands for key, secret and region, which are read, asked    *)
(* for and saved alike.                                                    *)
(***************************************************************************)
EXTENDS Naturals, Sequences

CONSTANTS
  Options,       \* [noCloud, yes, model, shadow, issue, cli], from getopt
  Files,         \* what the credentials file may have: [key, device]
  Accounts,      \* what devices an account may have: their ids, in order
  LocalDevices,  \* the ids in broadcasts
  Addresses,     \* the addresses in broadcasts
  Capacity       \* MAX_DEVICES

Fields == {"key", "device"}
Unset == ""
Absent == "(absent)"  \* no file, or a field that it lacks; a saved file has all

ASSUME WizardAssumption ==
  /\ Capacity \in Nat
  /\ Files \subseteq [Fields -> STRING]
  /\ \A o \in Options : o.cli \in [Fields -> STRING]
  /\ Accounts \subseteq Seq(STRING) /\ LocalDevices \subseteq STRING
  /\ \A ids \in Accounts : \A m, n \in DOMAIN ids : ids[m] = ids[n] => m = n
  /\ Unset \notin Addresses /\ "typed" \in STRING

VARIABLES
  opts, cred, file,  \* the options, struct tuya_cloud, the credentials file
  pc, todo,          \* where wizard_main() is, and the requests it is still to make
  stack, token,      \* the calls under way, and if cloud->token is set
  devices,           \* the table of devices
  list,              \* the device list on disk
  fetched, issued,   \* for the properties: the cloud's list, shadow sets it has done
  failed             \* and the places where the list could not be opened or written

calls == <<stack, token>>
vars == <<opts, cred, file, pc, todo, calls, devices, list, fetched, issued, failed>>

OneShot == opts.model \/ opts.shadow \/ opts.issue
Ended == {"done", "failed", "killed"}

\* A call of tuya_api_call_r(): its request, and how often it was found invalid.
Frame(op) == [op |-> op, tries |-> 0]
Entry(id, key, ip) == [id |-> id, key |-> key, ip |-> ip]

-----------------------------------------------------------------------------
(* The credentials.                                                        *)

\* load_config(): what the file has, be it empty, replaces what the options gave.
Load ==
  /\ pc = "start"
  /\ cred' = [f \in Fields |-> IF file[f] # Absent THEN file[f] ELSE opts.cli[f]]
  /\ pc' = IF opts.noCloud THEN "ask" ELSE "creds"
  /\ UNCHANGED <<opts, file, todo, calls, devices, list, fetched, issued, failed>>

MayAsk == ~opts.yes \/ (pc = "creds" /\ cred["key"] = Unset)

\* The prompts, unless there are credentials and -y or the user is for them; an
\* empty answer keeps a field.  They are saved before they have been tried.
Credentials ==
  /\ pc = "creds"
  /\ \/ cred["key"] # Unset /\ UNCHANGED cred
     \/ /\ MayAsk
        /\ \E typed \in [Fields -> {Unset, "typed"}] :
             cred' = [f \in Fields |-> IF typed[f] # Unset THEN typed[f] ELSE cred[f]]
  /\ file' \in {file, cred'}
  /\ stack' = <<Frame("token")>> /\ token' = FALSE
  /\ pc' = "call"
  /\ UNCHANGED <<opts, todo, devices, list, fetched, issued, failed>>

\* The end of the input at a prompt.
EndOfInput ==
  /\ pc \in {"creds", "ask"} /\ MayAsk
  /\ pc' = "failed"
  /\ UNCHANGED <<opts, cred, file, todo, calls, devices, list, fetched, issued, failed>>

-----------------------------------------------------------------------------
(* Requests.                                                               *)

Top == stack[Len(stack)]

\* What may come back: nothing, after a failed connection or a lost answer, a failure,
\* success with or without what was asked for, or "token invalid" for a request that
\* carries one.
Answers == {"null", "fail"}
  \cup (IF token \/ Top.op = "token" THEN {"ok", "empty"} ELSE {})
  \cup (IF token THEN {"invalid"} ELSE {})

\* If the cloud has done what it was asked.
Performed(answer) ==
  CASE answer \in {"ok", "empty"} -> {TRUE}
    [] answer = "null" -> {FALSE, token}
    [] OTHER -> {FALSE}

\* tuya_get_devices(): as many as there is room for.
Listing(ids) ==
  [n \in 1..(IF Len(ids) < Capacity THEN Len(ids) ELSE Capacity)
     |-> Entry(ids[n], "key", Unset)]

\* What the cloud has listed; no array is an empty list.
Listed(answer) == IF answer = "empty" THEN {<<>>} ELSE Accounts

Asked(op) == IF opts[op] THEN <<op>> ELSE <<>>
OneShots == Asked("model") \o Asked("shadow") \o Asked("issue")

\* wizard_main() goes on with the next of the requests, or after the last.
GoOn(requests) ==
  IF requests # <<>>
    THEN /\ stack' = <<Frame(Head(requests))>> /\ todo' = Tail(requests)
         /\ pc' = "call"
    ELSE /\ stack' = <<>> /\ todo' = <<>>
         /\ pc' = IF OneShot THEN "done" ELSE "save"

GiveUp == pc' = "failed" /\ stack' = <<>> /\ UNCHANGED todo

\* A call of wizard_main() returns.  A one-shot prints what it gets, whatever it is.
Returns(op, answer) ==
  CASE op = "token" ->
         /\ IF answer # "ok" \/ (OneShot /\ cred["device"] = Unset) THEN GiveUp
            ELSE GoOn(IF OneShot THEN OneShots ELSE <<"uid", "list">>)
         /\ UNCHANGED <<devices, fetched>>
    [] op = "uid" ->
         /\ IF answer = "ok" THEN GoOn(todo) ELSE GiveUp
         /\ UNCHANGED <<devices, fetched>>
    [] op = "list" ->
         IF answer \in {"ok", "empty"}
           THEN /\ GoOn(todo)
                /\ fetched' \in Listed(answer) /\ devices' = Listing(fetched')
           ELSE GiveUp /\ UNCHANGED <<devices, fetched>>
    [] OTHER -> GoOn(todo) /\ UNCHANGED <<devices, fetched>>

\* Mutants: the old token goes with the request for a new one; a request without an
\* answer is made again.
ForgetNothing == UNCHANGED token
RefreshableLost(answer) == answer \in {"invalid", "null"} /\ token /\ Top.tries = 0

\* tuya_get_token() forgets the token before it asks for another one.
Forget == token' = FALSE

\* Only "token invalid", with a token, and not for a retry.
Refreshable(answer) == answer = "invalid" /\ token /\ Top.tries = 0

Refresh ==
  /\ stack' = Append([stack EXCEPT ![Len(stack)].tries = @ + 1], Frame("token"))
  /\ Forget
  /\ UNCHANGED <<pc, todo, devices, fetched>>

\* Mutant: an answer without a token counts as one.
TokenAnyway(answer) == IF answer = "empty" THEN "ok" ELSE answer

\* tuya_get_token() looks for the token in a successful answer.
TokenIn(answer) == answer

\* tuya_get_token() returns: to wizard_main(), or to the call whose token was invalid,
\* which makes its request again or returns nothing.
TokenReturns(answer) ==
  LET n == Len(stack) - 1
  IN /\ token' = (token \/ answer = "ok")
     /\ IF n = 0 THEN Returns("token", TokenIn(answer))
        ELSE IF TokenIn(answer) = "ok"
          THEN stack' = SubSeq(stack, 1, n) /\ UNCHANGED <<pc, todo, devices, fetched>>
        ELSE Returns(stack[n].op, "null")

\* The request of the innermost call, and what its caller does with the answer.  Without
\* a timeout (https_request()) a silent cloud keeps the call waiting: no step is taken.
Request ==
  /\ pc = "call"
  /\ \E answer \in Answers :
       /\ \E done \in Performed(answer) :
            issued' = IF Top.op = "issue" /\ done THEN issued + 1 ELSE issued
       /\ IF Refreshable(answer) THEN Refresh
          ELSE IF Top.op = "token" THEN TokenReturns(answer)
          ELSE Returns(Top.op, answer) /\ UNCHANGED token
  /\ UNCHANGED <<opts, cred, file, list, failed>>

-----------------------------------------------------------------------------
(* The device list and the scan.                                           *)

\* save_devices(), after the listing and after the scan, opens the list, which
\* empties it, or cannot.
SaveOpen ==
  /\ pc \in {"save", "saveScan"}
  /\ \/ /\ list' = [whole |-> FALSE, devices |-> <<>>] /\ UNCHANGED failed
        /\ pc' = IF pc = "save" THEN "write" ELSE "writeScan"
     \/ /\ UNCHANGED list /\ failed' = failed \cup {pc}
        /\ pc' = IF pc = "save" THEN "ask" ELSE "done"
  /\ UNCHANGED <<opts, cred, file, todo, calls, devices, fetched, issued>>

\* All is written, or not, which fprintf() and fclose() tell and nobody looks at.
Write ==
  \/ list' = [whole |-> TRUE, devices |-> devices] /\ UNCHANGED failed
  \/ UNCHANGED list /\ failed' = failed \cup {pc}

\* Mutant: after the scan the question is asked again.
SaveWriteAsks ==
  /\ pc \in {"write", "writeScan"}
  /\ Write
  /\ pc' = "ask"
  /\ UNCHANGED <<opts, cred, file, todo, calls, devices, fetched, issued>>

SaveWrite ==
  /\ pc \in {"write", "writeScan"}
  /\ Write
  /\ pc' = IF pc = "write" THEN "ask" ELSE "done"
  /\ UNCHANGED <<opts, cred, file, todo, calls, devices, fetched, issued>>

\* "Poll local devices?"; without a port to listen on the scan is over at once.
AskScan ==
  /\ pc = "ask"
  /\ \/ pc' \in {"scan", "saveScan"}
     \/ ~opts.yes /\ pc' = "done"
  /\ UNCHANGED <<opts, cred, file, todo, calls, devices, list, fetched, issued, failed>>

Known(id) == {n \in DOMAIN devices : devices[n].id = id}

\* Mutants: a known device is entered anew; the table overflows.
MatchAnew(n, ip) == devices' = [devices EXCEPT ![n] = Entry(devices[n].id, Unset, ip)]
RoomAlways == TRUE

\* A device that has no address yet gets that of its broadcast.
Match(n, ip) ==
  devices' = IF devices[n].ip = Unset THEN [devices EXCEPT ![n].ip = ip] ELSE devices

Room == Len(devices) < Capacity

\* A broadcast on port 6666 or 6667 that could be decoded; others change nothing.
Broadcast ==
  /\ pc = "scan"
  /\ \E id \in LocalDevices, ip \in Addresses :
       \/ \E n \in Known(id) : Match(n, ip)
       \/ Known(id) = {} /\ Room /\ devices' = Append(devices, Entry(id, Unset, ip))
  /\ UNCHANGED <<opts, cred, file, pc, todo, calls, list, fetched, issued, failed>>

\* The deadline of udp_discover() has passed.
ScanEnds ==
  /\ pc = "scan"
  /\ pc' = "saveScan"
  /\ UNCHANGED <<opts, cred, file, todo, calls, devices, list, fetched, issued, failed>>

\* A signal has its default effect everywhere.
Kill ==
  /\ pc \notin Ended
  /\ pc' = "killed"
  /\ UNCHANGED <<opts, cred, file, todo, calls, devices, list, fetched, issued, failed>>

Init ==
  /\ opts \in Options /\ file \in Files
  /\ cred = opts.cli
  /\ pc = "start" /\ todo = <<>>
  /\ stack = <<>> /\ token = FALSE
  /\ devices = <<>> /\ fetched = <<>> /\ issued = 0
  /\ list = [whole |-> TRUE, devices |-> <<>>] /\ failed = {}

Program == Load \/ Credentials \/ EndOfInput \/ Request \/ SaveOpen \/ SaveWrite
           \/ AskScan \/ Broadcast \/ ScanEnds

Next == Program \/ Kill

\* The steps that wait for nobody, neither the cloud nor the user; the clock ends the
\* scan, also while broadcasts arrive.
Local == \/ Load \/ SaveOpen \/ SaveWrite \/ ScanEnds
         \/ ~MayAsk /\ (Credentials \/ AskScan)

Spec == Init /\ [][Next]_vars /\ WF_vars(Local)

-----------------------------------------------------------------------------
(* Properties.                                                             *)

Ops == {"token", "uid", "list", "model", "shadow", "issue"}
Device == [id : STRING, key : {Unset, "key"}, ip : Addresses \cup {Unset}]

\* Every variable has its type, and neither the table nor the list on disk is longer
\* than MAX_DEVICES.
TypeOK ==
  /\ opts \in Options
  /\ cred \in [Fields -> STRING] /\ file \in [Fields -> STRING]
  /\ pc \in {"start", "creds", "call", "save", "write", "ask", "scan", "saveScan",
             "writeScan"} \cup Ended
  /\ todo \in Seq(Ops) /\ token \in BOOLEAN /\ issued \in Nat
  /\ stack \in Seq([op : Ops, tries : Nat])
  /\ pc = "call" => stack # <<>>
  /\ devices \in Seq(Device) /\ Len(devices) <= Capacity
  /\ fetched \in Seq(STRING) /\ failed \subseteq {"save", "write", "saveScan", "writeScan"}
  /\ list.whole \in BOOLEAN
  /\ list.devices \in Seq(Device) /\ Len(list.devices) <= Capacity

\* However often the cloud calls tokens invalid, the recursion of tuya_api_call_r()
\* and tuya_get_token() is a call and at most one refresh in it, once per call.
CallBounded ==
  /\ Len(stack) <= 2
  /\ \A n \in DOMAIN stack : stack[n].tries <= 1
  /\ Len(stack) = 2 => stack[1].tries = 1 /\ stack[2] = Frame("token")

\* A request made again has a token that was given out after the first was refused.
RetryCarriesToken == Len(stack) = 1 /\ stack[1].tries > 0 => token

\* -I sets the shadow property at most once, whatever is lost or refreshed.
IssuedAtMostOnce == issued <= 1

\* When nothing failed but opening the list again after the scan, a run that has come to
\* its end leaves a whole list with the keys of the cloud's devices, the first MAX_DEVICES
\* of them, and a device has one entry: also when the scan has filled the table, and the
\* list was written over (save_devices(), udp_discover()).  The one-shots write no list.
KeysSaved ==
  pc = "done" /\ ~OneShot /\ failed \subseteq {"saveScan"} =>
    /\ list.whole
    /\ \A n \in DOMAIN fetched : n <= Capacity =>
         \E k \in DOMAIN list.devices :
           list.devices[k].id = fetched[n] /\ list.devices[k].key = "key"
    /\ \A k, l \in DOMAIN list.devices :
         list.devices[k].id = list.devices[l].id => k = l

\* -k, -s, -r and -i: the wizard talks to the cloud with the credentials that the
\* command line gives, unless the user types others (usage(), load_config()).
OptionsCount ==
  \A f \in Fields :
    pc = "call" /\ opts.cli[f] # Unset => cred[f] \in {opts.cli[f], "typed"}

\* A run makes finitely many requests, whatever the cloud calls its tokens; it comes to
\* its end, however many broadcasts come, or stays at a request or at a question that is
\* never answered: neither the scan nor the saves hold it up (tuya_api_call_r(),
\* udp_discover()'s deadline, wizard_main()).
Ends ==
  /\ <>[](pc \in Ended \cup {"call"} \/ (pc \in {"creds", "ask"} /\ MayAsk))
  /\ <>[][FALSE]_stack

=============================================================================
