# Formal models of seatuya

TLA+ models of the seatuya repository: libseatuya, a C interface over tuyapp's
C++ client for Tuya devices on the local network, and the programs and bindings
built on it.  The models are checked with TLC on small instances, and the
properties that matter most are proved with TLAPS for every value of the
constants.

Paths below are those of the repository, with `src/` for its root: the library
is `src/src/seatuya.cpp`, the sous-vide program `src/examples/sousctl.c`.

## 1. The system

| Part | State it keeps | Operations | Talks to | What is hard about it |
|---|---|---|---|---|
| Client handle (`src/src/seatuya.cpp`) | credentials, retry limit, device22 flag; in tuyapp: socket, session key, sequence number | create/alloc/destroy, credentials, connect, reconnect, disconnect, negotiate, round trips (status, set value, on/off, heartbeat), async calls | the device, by TCP frames | frames lost, late, pushed unasked; half-open connections; retry after a command may have been performed; sessions bound to a connection |
| sousctl, the run (`src/examples/sousctl.c`) | phase and position in it, `g_interrupted`, locals of the recovery | `run_ramp`, `wait_for_temp`, `recover_from_fault`, `verified_off`, signal handler | the client handle; the cooker's DPs 101-108 | signals at every sleep, lost commands and replies, faults that come and go, leaving the cooker switched off however it ends |
| sousctl, the rest (same file) | configuration, address, phase list | `read_config`, parsers, immediate `status`/`read`/`off`/`temp`, ARP lookup | the client handle, `/proc/net/arp` or `arp -an` | immediate commands act before the rest of the line has been parsed; three layouts of an ARP table |
| Cloud wizard (`src/examples/wizard-common.c`) | credentials, access token, table of devices, two files | signed requests, one refresh of the token, merge of cloud and broadcast data | Tuya's cloud by HTTPS, UDP, the user | token expiry between requests, precedence of settings, a list that is written twice |
| Discovery (`src/examples/tuyascan.c`) | three sockets, table of devices seen | listen, decrypt, report | UDP broadcasts | duplicates, a full table, padding, three ports at once |
| Probe (`src/examples/tuyaprobe.c`) | one connection, one handle, counts of bytes | four phases per port | the client handle, raw TCP | each failure has to leave no connection behind; what silence means |
| NIFs (`src/bindings/erlang`, `src/bindings/gleam`) | a resource holding a handle | one function per library call, a destructor | the library, from several scheduler threads | destroy during a call, addresses used again |
| Other bindings (`src/bindings`) | none of their own | declarations of the C interface | the library | - |
| Device classes (`src/tuya-devices.lsp`, `src/seatuya.lsp`) | cached status, cloud token, IR study mode | per-device methods | the library, the cloud | cached state, token age |
| YAML reader (`src/yaml.lsp`) | parse position, anchors | parse | files | recursion, anchors and merge keys |
| Vendored data, packaging, tests | - | - | - | - |

The library has no threads and no callbacks: the application's thread is the
only actor on its side.  Concurrency comes from the device (which serves
requests late and sends frames on its own), from the network, from signals, and
in the NIFs from Erlang's scheduler threads.

What makes each part correct:

- *Client handle*: a call transmits at most as often as its retry limit
  allows and always returns; a retransmission uses a session negotiated on its
  own connection; the answer of a retried call is a reply to its last
  transmission; a status query does not settle for a reply without data points
  while it could read on; the device never performs a command more often than
  it was sent.
- *sousctl run*: whatever happens the last power command is "off" when the
  program ends by itself; a confirmed power-off is one; a phase is never run
  with the cooker left off by a recovery; the setpoint of a ramp moves one way
  and the program waits for what it commanded, short ramps apart; a signal ends
  the run.
- *sousctl, the rest*: the line is carried out as its grammar reads it; a dry
  run reaches no cooker; the address is that of the cooker's MAC.
- *Wizard*: one refresh per call, no request made again without a new token, a
  command issued once, the keys on disk at the end unless a save has failed.  *Discovery*: every device
  heard is listed, and counted once; no port starves.  *Probe*: what is reported of
  the peer is true, as far as section 5 does not except it, and the device sees one connection at a time.  *NIFs*: no
  call on a destroyed handle, none destroyed twice, none lost.

`PROJECT.json` lists the parts, the runs, the hazards with the lines where they
bite, the source lines of every definition, the findings and the theorems.

## 2. Modules

| Module | Models | Used by |
|---|---|---|
| `RetriedCall` | what a call of the library promises: an at-least-once call within a budget of transmissions | refined by `SeatuyaClient` |
| `SeatuyaClient` | one handle, its application, the connection, the device | `MCSeatuyaClient`, `SeatuyaClientProofs` |
| `Sousctl` | a run of sousctl and the cooker | `MCSousctl`, `SousctlProofs` |
| `SousctlCommands` | sousctl's configuration, ARP lookup and command line | `MCSousctlCommands`, `SousctlCommandsProofs` |
| `NifHandle` | handles behind references that processes share | `MCNifHandle`, `NifHandleProofs` |
| `Wizard` | a run of seatuya-wizard, the cloud and the scan | `MCWizard`, `WizardProofs` |
| `Scan` | a run of tuyascan | `MCScan`, `ScanProofs` |
| `Probe` | a run of tuyaprobe and its peer | `MCProbe`, `ProbeProofs` |
| `MC*` | values of the constants for TLC | the `.cfg` files |
| `*Proofs` | theorems | - |

How they fit together: `SousctlCommands` collects a chain and its `RunChain`
stands for a whole behaviour of `Sousctl`, which starts from such a chain
(`TypeOK` of the first says what `ChainAssumption` of the second asks for) and
ends in the ways `RunChain` has.  A library call in `Sousctl` is one step that
may lose the command or its reply; `SeatuyaClient` has its inside, and
`RetriedCall` is what the two agree on.  `NifHandle` takes a library call as one
step between entering and returning.

### SeatuyaClient

State: the fields of `struct tuya_device` (`live`, `version`, `hasId`,
`localKey`, `hasIp`, `retryLimit`, `device22`); of tuyapp only what
`seatuya.cpp` relies on (`connected`, which is what `isConnected()` answers and
may be stale, and `session`); the locals of `round_trip` (`pc`, `cmd`,
`retries`, `frame`); the connection (`link`, `toDevice`, `toClient`) and the
device (`applied`).  `callNo`, `sends`, `opened` (connections since the last
attempt) and `negotiated` (over which of them) are kept for the properties.

Every library function is one action, except `round_trip`, which is cut at each
send and receive: `RoundTrip` (checks, command remapping) and
`RoundTripRefused`; `Send`, `SendFails`, `BuildFails`; `ReceiveFrame`,
`ReceiveFails` (a timeout or a lost connection); `GiveUp`; `Retry`
(disconnect, reconnect, renegotiate).  `DeviceServe`, `DevicePush` and
`PeerDrop` are the environment.  tuyapp is not in the repository: its operators
are marked external in the map.  Frames carry which call and which attempt they
answer, so that properties can tell them apart, never bytes.  The payload of a
frame is one of three kinds: JSON (data points), other text, or empty.

Left out: the functions for an application-driven loop (`tuya_set_async_mode`,
`tuya_set_session_ready`, `tuya_negotiate_session_start`/`_finalize`,
`tuya_send`, `tuya_receive`, message building and decoding), each of which hands
its arguments to tuyapp and returns what it gives; and the value of the data
points.

### Sousctl

State: the chain of phases, where the program is (`pc`, `pi`, `step`, `held`,
`target`), the locals of `recover_from_fault` and who called it, the attempts
of `verified_off`, `interrupted` (`g_interrupted`), and the cooker (`power`,
`armed`, its `fault`s and its `water` temperature).  An action is the code from
one sleep or status read to the next; signals and the cooker act in between.
A call of the library may lose its command or its reply, or return some of the
data points only (`Lossy`).  A reply reports the cooker as it is.  That a reply
can lag behind by frames still queued on the connection, which `SeatuyaClient`
shows, is left out: what is said below of `ConfirmedOff` is said for replies
that do not lag.

Temperatures are tenths of a degree, times are seconds, and the rounding of
the setpoints is that of C's `round()`.  Messages, the "cold" bookkeeping of a
hold (which only prints) and DP 102 (which nothing acts on) are left out.

### SousctlCommands

State: the invocation (`inv`: the words, `-n` and `-i`, the lines of the
configuration file, the rows of the ARP tables), where `main()` is (`pc`, `i`),
the `phases` collected, the `address`, and what the cooker was told (`acts`).
`Configure` reads the file and looks the MAC up; `Immediate` is a word that is
carried out at once, with `Warm` and `Alarm` for the wait a first `temp` has;
`Collect` adds a phase, `Reject` ends at the first bad word, `RunChain` runs
what was collected.  A word is a command, a number with its unit, or a clock
with its fields; numbers have the width of an `int` (`IntMax`): a temperature out
of it becomes the least or the greatest, a duration wraps around.  A row is given by its words and by what the
patterns of `arp_line_match()` find in it.  The buffer that `mac_normalise()` appends to
without initialising it holds the MAC or something else (`Normalised`).

### NifHandle

State: the resources (`made`, `dev` for `r->dev`), who holds a reference
(`held`), the library's handles (`heap`, whose addresses are used again), and
where each process is in a NIF (`pc`, `ref`, `got`, `call`).  A NIF is cut where
another thread may come in between: it reads the pointer (`Enter`), is inside
the library until `LibraryReturns`, and converts a string (`Convert`); destroy
reads (`Destroy`), forgets (`Clear`) and frees (`Free`); `Collect` is `dev_dtor`.  The
processes, their messages and the garbage collector are the Erlang VM's.
`overlapped` records that a destroy and another call on the same reference
overlapped, after which the C code promises nothing; the properties say that up
to there nothing goes wrong, and `NoLeak` also after it.

### Wizard

State: the credentials and the file they are kept in, the calls under way as a
stack (`tuya_api_call_r` and `tuya_get_token` call each other), whether there is
a `token`, the requests `wizard_main` is still to make (`todo`), the table of
`devices` and the `list` on disk.  An account (`Accounts`) is what the cloud
lists, and may be larger than the table; `fetched` is all that was listed.  A
request is one step with any of the answers that the cloud or a lost connection
may give, or none for ever, since no timeout is set on it; the cloud may refuse a
token whenever it likes.  Writing the list is two steps, since `fopen` empties
it; either may fail, the second one unnoticed (`failed` remembers which did), and
a signal may come before any step.  HTTPS, signatures and JSON are left out.

### Scan

State: the sockets that could be bound, the datagrams that wait on each port,
the ports left in this round of `select()`, the table (`seen`), the lines
printed, the count and the clock.  A datagram carries what its device calls
itself, or that it is no device's, next to what `aes128_ecb_decrypt()` leaves of
it, so that the listing can be compared with what was broadcast: `heard` has the
devices, `strays` the senders of the rest on port 7000; `Unpad` is the code's check of the padding.

### Probe

State: where `probe_one_port` is, the sub-probes of phase 3 left, the
connections and handles held, the bytes of junk in the two buffers and those
read, what the peer has done on this connection and what was reported.  Each
step of a sub-probe may fail, and gives back what the code gives back there.  A
send may time out whenever the send buffer is full, for whatever reason.  The
wait that `-t` gives (`arg_wait`) is one of `Waits` and may be none, as `atoi()`
takes 0, negative numbers and words; phase 4 waits `IDLE_HOLD_SEC`.

## 3. Runs

Run times are minutes for `client` (1.8 million states) and less for the others.
"Violated" means that TLC finds a counterexample, which is the point of the run
(section 5).

| Run | Checks | Bounds |
|---|---|---|
| `client` | `TypeOK`, `AttemptsBounded`, `RetryUnderSession`, `RetriedAnswerIsFresh`, `QueryPrefersDataPoints`, and that it implements `RetriedCall` | versions 3.3 and 3.5 (one without and one with sessions), the right key, retry limits 2 (the default here) and -1, three calls, two queued frames |
| `client_live` | `CallReturns` | as above with a wrong key too, limits 0 and 1, two calls, device22 firmware |
| `sousctl` | `TypeOK`, `ConfirmedOff`, `EndsSwitchedOff`, `RunsSwitchedOn`, `WaitsForSetpoint`, `RampApproachesEnd`, `InterruptEndsRun` | four chains, one with a ramp of 30 seconds, three water temperatures, backoff of two delays, three E2 probes, losses, E2 faults |
| `commands` | `TypeOK`, `AddressOfCooker`, `AsWritten`, `LeftAsOrdered`, `DryRunSilent` | every line of up to five words over six words (up to three with `-n`), five longer ones, three files, four ARP tables |
| `nif` | `TypeOK`, `CallsUseOwnHandle`, `DestroyedOnce`, `NoLeak`, `Reclaimed` | three processes, two references, two addresses, a NIF with a string and one without |
| `wizard` | `TypeOK`, `CallBounded`, `RetryCarriesToken`, `IssuedAtMostOnce`, `KeysSaved`, `Ends` | accounts of two and of four devices, three devices in broadcasts, a table of three, with and without a file, `-y`, `-N` and the one-shot requests |
| `scan` | `TypeOK`, `ListsWhatIsHeard`, `CountsDevices`, `NoPortStarves`, `Ends` | datagrams of eight kinds on three ports, without end, one waiting on a port, three devices and a table of two, a count up to three, blocks of two bytes |
| `probe` | `TypeOK`, `VerdictSound`, `OneConnection`, `ReportTrue`, `Ends` | two ports, all six sub-probes, chunks of two bytes against buffers of two and two, a threshold of four and a limit of nine, waits of 0 and 2 ticks |
| `short_ramp`, `off_in_fahrenheit`, `arp_bsd`, `wizard_credentials` | one statement of the documentation each: violated | the instance that shows it |

Why these bounds are enough to be interesting.  Two calls let a late reply of
the first meet the second, and three let a status query read three replies
without data points, the most it reads; a limit of 2 lets a retry itself be
retried, and a negative one is what `tuya_set_retry_limit` accepts; two queued
frames put a push in front of a reply.  The chains of `sousctl` contain rising
and falling ramps, one with seconds left over, one whose steps have to be
rounded and one without a full minute, and every kind of phase following another; a hold is longer than one
poll; the two delays are reached, stayed on, and cut short; the probes for
faults other than E2 (2) run out before E2's (3) do.  Five words hold a command
with all its arguments next to another one, a command in the place of an
argument, and a missing last argument.  Three processes let a destroy meet a
call and a third process take the address that was freed.  A table of three has
room for one of the two devices that are only broadcast next to the smaller
account, and not for the larger one.  A table
of two and three devices makes tuyascan's table overflow (what is counted beyond
three does not matter to its properties; one datagram in each queue already
reaches the bound of `NoPortStarves`), and blocks of two
bytes make a padding fill one.  Buffers that just reach the threshold are what
makes a stall of the probe ambiguous.

Deadlock is checked for the client and the NIFs, whose environment can always
act.  The programs end, so their runs do not check it.

**Fairness.** `client_live` assumes weak fairness of `Loop`, the steps of
`round_trip`: a thread in it is runnable, since every receive has a timeout in
tuyapp.  Nothing is assumed of the application, the device or the network.
`sousctl` assumes weak fairness of `Program`, for the same reason: every sleep
ends and every call returns.  Nothing is assumed of the cooker, whose water may
never get warm: it is the signal that has to end the wait.  `InterruptEndsRun`
excepts, in its premise, a cooker that leaves the polls of a wait without a reply,
or answers them with a fault, for ever; finitely many of either, faults and
silence in any other place, and lost commands are in the run.
`nif` assumes that a destroy that has begun is finished and that the VM runs a
destructor once the last reference is gone; calls on a handle may stay in the
library for ever.  `wizard` assumes only that the steps which wait for nobody are
taken (`Local`: files, the scan's deadline, questions that `-y` answers).  Neither
the requests, whose sockets have no timeout (`wizard-https-openssl.c`,
`wizard-https-libtls.c`), nor the prompts are fair, so `Ends` says that a run ends
or stays at one of these, and makes finitely many requests before.  The scan's
deadline is looked at between datagrams, so `ScanEnds` is possible whenever a
broadcast is.  `scan` and `probe` assume that the program runs, its `select()`
and send timeouts included, and that time passes.  How many datagrams come is
free, as is what the peer of a probe sends and reads and how fast.

## 4. Theorems

| Module | Theorems |
|---|---|
| `SeatuyaClientProofs` | `TypeCorrect`, `Attempts`, `RetrySession`, `RetriedAnswer`, `QueryAnswer`, `Refinement`, `RoundTripEnds` |
| `SousctlProofs` | `TypeCorrect`, `SwitchedOffAtEnd`, `SwitchedOnWhileRunning`, `ConfirmedOffInCelsius`, `WaitsForWhatIsSet`, `RampsApproachTheirEnds`, `PhasesAreCompleted`, `InterruptedRunEnds` |
| `SousctlCommandsProofs` | `TypeCorrect`, `DryRunIsSilent`, `LeavesAsOrdered`, `AddressIsCookers`, `LineAsWritten`, `ReadingEnds` |
| `NifHandleProofs` | `TypeCorrect`, `CallsAreOwn`, `NoDoubleDestroy`, `NothingLeaks`, `DestroyedByLast` |
| `WizardProofs` | `TypeCorrect`, `RecursionBounded`, `RetryHasToken`, `IssuedOnce`, `KeysAreSaved`, `RunIsFinite` |
| `ScanProofs` | `PaddingRemoved`, `PaddingChecked`, `TypeCorrect`, `NoStarvation`, `ListIsRight`, `CountIsRight` |
| `ProbeProofs` | `TypeCorrect`, `VerdictIsSound`, `OneConnectionAtATime`, `ReportsAreTrue`, `ProbeGoesForward` |

No bound of the runs remains in them: any number of calls, processes, devices,
datagrams and ports, any queues, retry limits, chains, lines, delays and
temperatures.  They rest on the named assumptions about the constants, which TLC
evaluates in the runs: what the command line lets through (`ChainAssumption`,
`InvocationAssumption`), types of numbers and sets, and for the probe
`BufferAssumption`, the program's own premise that the two TCP buffers hold less
than what its verdicts look for ("tens of KB"), and for the scan
`BroadcastAssumption`: a broadcast with an id is framed and padded as the
protocol says, and nothing else that is sent is a frame that carries one.
Two theorems have a hypothesis of their own:

- `ConfirmedOffInCelsius` needs a Celsius display, and fails without it
  (run `off_in_fahrenheit`);
- `AddressIsCookers` needs `Layouts`: the rows of the ARP tables have the
  columns that one of the patterns of `arp_line_match()` expects.  It fails
  without it (run `arp_bsd`).

`WaitsForWhatIsSet` and `PhasesAreCompleted` hold for every chain and say of a
ramp without a full minute what is so: the cooker was told its start.  The NIF
theorems about calls and destroys carry `~overlapped` in the property.

How the proofs go.  No property is inductive alone.

*Client.*  The invariant adds: the frame counter stays in range (`FrameLeft`), a
transmission is counted before it is repeated (`AttemptsCounted`), no answer
exists while a call runs (`AnswerPending`), queued requests are of calls begun
(`RequestsKnown`), at most one request of the current call is queued and the
device has performed it fewer times than it was sent (`OneRequest`), and after a
retry the queues hold frames of this attempt and pushes only
(`OnlyThisAttempt`), because the retry's new connection starts empty.  The last
two are what freshness and the refinement need.

*sousctl.*  The invariant adds that the phase run is one of the chain and a
pause never waits for the water (`PhaseKnown`), that `verified_off` has a try
left (`TryLeft`), that a probe is observed after an "on" and read back after an
"off" (`PowerKnown`), and that a confirmation is the last thing that happens
(`ConfirmedLast`).  For the setpoints, `SetpointKnown` says which value was last
commanded at each place of the program, through recoveries; that a ramp
approaches its end is arithmetic on rounded quotients (`QuotientGrows`,
`RoundGrows`, `RampSetpoints`).  `PhaseUnderWay` says what is done of a phase at
each place of the program, in a recovery by the place it was called from, and
makes of `SetpointKnown` that a phase which ends has been carried out
(`PhasesAreCompleted`).

*Commands.*  `TypeInv` with the types of what each parser gives; for the power,
`PowerKnown` follows what `Append` does to the last command that is no query.
`AsWritten` compares the loop with readings of a whole line, of which there is
no recursive definition to unfold: a reading is a way to cut the line into
commands with their arguments.  `Following` says that the words read so far are
the beginning of every such reading, that what they told the cooker and the
chain has the order of the words (`RankGrows`), and at a rejection that no
reading goes on from there.  Where a reading has to be followed word by word,
the proof takes the first place at which it would differ (`NoneInside`,
`AllReadHere`).  For the address, each row in one of the two layouts matches its
own MAC only (`RowMatches`), and the earliest match is taken (`EarliestIs`).

*NIFs.*  A process in a NIF still holds its argument (`BusyHolds`), what it has
read is what the resource has unless a destroy has cleared it (`Points`), and
without an overlap a destroy about to clear is alone on its reference (`Alone`).
From these follows what a step may do to the heap: the destructor finds no
process in a NIF, since it would hold its argument, and a destroy finds no
resource with its handle.

*Wizard.*  `Shape` has the two stacks there can be, `Issuing` says that the
command of `-I` is either done or still to do, and `Saved` that what the cloud
told stays in the table while the scan completes it.

*Scan.*  `Rounds` and `Turns` relate how often a port was passed by to what is
left of the round; `Counted` relates the table, the listing and the devices
heard.  That the listing is right also needs that what is decoded of a datagram
is its id or nothing (`DecodedIsId`): a proper padding is removed, and a text is
found in front of a proper padding only.  *Probe.*  Bytes accepted are bytes in
one of the buffers or read (`Conserved`), and what waits was sent (`SentBefore`).

*Why the programs end.*  Liveness is out of the prover's reach, but the part of
it that is about the code is not: a number that the program's own steps lower
and nothing else raises.  `ReadingEnds` (words left), `RoundTripEnds` (retries
left and steps of the attempt), `RunIsFinite` (requests the stack and the list
may still cost, and addresses missing in the table), `ProbeGoesForward` (ports
and sub-probes, then junk to write and ticks) and `InterruptedRunEnds` (phases, then the
way out of one) have such variants.  The last one also shows the steps that do
not lower it: polls without an answer, and polls that find the E2 fault, which
lead back to the same wait.  That is what the premise of `InterruptEndsRun` is
about.  tuyascan has no such number but its clock.

Only model-checked: the liveness properties themselves (`CallReturns`,
`InterruptEndsRun`, `Reclaimed` and the three `Ends`), which add to these
variants that steps which can be taken are taken.  Every invariant and action
property of a passing run is also a theorem.  The `RECURSIVE`-free definitions
leave nothing to induction over data; where one would be natural, as over the
words of a line, the proof argues by the least counterexample.

## 5. What disagrees with the documentation

Four are runs whose property is what the repository says; `PROJECT.json`
quotes the lines.

- A ramp of less than a minute has no step: the program waits for an end that the
  cooker was never told (`short_ramp`).
- `verified_off` takes DP 108 for DP 101 when the display is in Fahrenheit
  (`off_in_fahrenheit`).
- For a row of `arp -a` as BSD, macOS and Linux print it, `arp_line_match` takes
  the columns of `/proc/net/arp` and the address becomes "?" (`arp_bsd`).
- The credentials file replaces the credentials that the options gave
  (`wizard_credentials`).

The models have more behaviours that a line of the repository contradicts or
that a reader may not expect.  No run is about them.

*Client.*  `tuya_reconnect()` on a connected handle without a session succeeds
and leaves it without one (`seatuya.cpp:179`; `seatuya.h:205` says it
renegotiates).  An empty acknowledgement is retried like a network failure, so
the command is repeated (`:607`; `:529-531` speaks of a timeout or network
error).  The heartbeat of a 22-character id is built by tuyapp's builder, since
`gen_payload()` has no caller, and is ignored by the device.

*sousctl, the run.*  An E2 fault is classified from a second read and may get
the two probes of other faults (`sousctl.c:624`; `:599`).  A window without any
reply counts as a good probe (`:689`; `:605`).  The ALARM exit does not verify
that the cooker is off (`:706`; `:729`).  The first signal does not end a wait
while the cooker is silent or without water (`:759`; `:745`).  A signal in a temp phase
starts the next phase before the power-off; a second signal ends the program
with the cooker as it is; a hold goes on with faults other than E2.

*sousctl, the line.*  An immediate `temp` switches the cooker on (`sousctl.c:1280`;
`sousctl.1:48-51` says that it does not).  Immediate
commands run before the chain also when they are written after it.  A signal
before the chain, or a rejected line, leaves the cooker as the immediate
commands left it: nothing switches it off at exit (`LeftAsOrdered` says how that
is; `temp 40C ramp junk` leaves it on).

*Wizard.*  After a refresh that failed, the next one-shot request goes out
without a token.  Credentials are saved before they have been tried.  `-y` still
prompts when there are none.  With `-N` the list of devices is replaced by what
the scan finds, without names and keys.  The list is emptied before it is
written, and an error in writing it goes unnoticed.  A cloud that does not answer
holds the run up for ever.  An account beyond the table's 64 devices is cut.

*Scan.*  A device beyond the table's 64 is printed and counted at each of its
broadcasts.  Whoever sends anything to port 7000 is listed as a device.

*Probe.*  An application that reads, but stops within the threshold or is slower
than the send timeout, is called absent (`tuyaprobe.c:253-258`), also when the
network is to blame: `VerdictSound` says how much it may have read.  With `-t 0`
silence is reported without a look (`:143`); a reset is taken for an application's.  The answer to a session may be a
frame the device pushed, and a closed connection there is reported as silence.
Sessions always use port 6668, whatever port is probed.

## 6. Not modelled

- *tuyapp*: outside the repository.  What `seatuya.cpp` relies on is modelled
  and marked external; the encoding of frames, and what the calls for an
  application-driven loop do to the session and the socket, are not.
- *A cooker whose replies lag* under a run of sousctl: `SeatuyaClient` has the
  lag and `Sousctl` assumes that there is none.
- *Two calls inside the library on one handle*: nothing in the repository says
  that a handle may be shared like this, so `NifHandle` stops at the pointer.
- *Device classes* (`tuya-devices.lsp`): methods over the calls that are
  modelled, for devices whose data points the repository does not define.
- *The YAML reader*: a pure function of text, whose properties are about
  characters.
- *The other bindings, the transports, the script versions and the TLS and
  crypto wrappers*: no state beyond a call.  *Packaging, tests, vendored data*:
  no run-time state.
- AES, JSON, signatures and the wording of messages, everywhere.
