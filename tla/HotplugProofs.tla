--------------------------- MODULE HotplugProofs ----------------------------
(***************************************************************************)
(* Theorems about Hotplug, for every number of callbacks and of reporter   *)
(* threads, and with every operation failing or not.                       *)
(***************************************************************************)
EXTENDS Hotplug, TLAPS

Alive(r) == reporter[r] \notin {"none", "done"}

\* How the phases of a call, the flags and the watcher go together as long as
\* no call was made inside a callback.
Phases ==
  /\ caller = Client
  /\ api \in {"joinReporter", "stopWatcher", "joinWatcher"} => ~inited
  /\ api = "spawn" => inited
  /\ running /\ ~inited => api \in {"joinReporter", "stopWatcher"}
  /\ watcher # "none" => running \/ api = "joinWatcher"
  /\ ~inited /\ api # "joinReporter" => joinable = 0

\* The reporters are created in order, and one that has not ended is the one
\* to be joined or has a successor.
Succession ==
  \A r \in Reporters :
    /\ reporter[r] # "none" => \A q \in Reporters : q < r => reporter[q] # "none"
    /\ Alive(r) => \/ joinable = r
                   \/ \E q \in Reporters : q > r /\ reporter[q] # "none"

IInv == TypeOK /\ (~reentered => Phases /\ Succession)

\* A step that touches neither the call nor the pc of a thread.
LEMMA Frame ==
  ASSUME Phases, Succession, UNCHANGED control, UNCHANGED <<watcher, reporter>>
  PROVE  Phases' /\ Succession'
  BY DEF Phases, Succession, Alive, control

\* A step of the watcher, which was created and is not joined by it.
LEMMA WatcherFrame ==
  ASSUME Phases, Succession, UNCHANGED control, UNCHANGED reporter,
         watcher # "none"
  PROVE  Phases' /\ Succession'
  BY DEF Phases, Succession, Alive, control

\* A step of a reporter, which goes on or ends.
LEMMA ReporterFrame ==
  ASSUME TypeOK, Phases, Succession, UNCHANGED control, UNCHANGED watcher,
         NEW r \in Reporters, NEW pc \in ReporterPcs \ {"none"},
         Alive(r), reporter' = [reporter EXCEPT ![r] = pc]
  PROVE  Phases' /\ Succession'
<1>1. Phases'
  BY DEF Phases, control
<1>2. \A q \in Reporters : (reporter[q] # "none") <=> (reporter'[q] # "none")
  BY DEF TypeOK, Alive
<1>3. \A q \in Reporters : Alive(q)' => Alive(q)
  BY DEF TypeOK, Alive
<1>4. joinable' = joinable
  BY DEF control
<1>5. Succession'
  BY <1>2, <1>3, <1>4 DEF Succession
<1> QED
  BY <1>1, <1>5

LEMMA TellTyped ==
  ASSUME TypeOK, NEW cb, NEW connected \in BOOLEAN, Tell(cb, connected)
  PROVE  told' \in [Listeners -> {"nothing", "connected", "disconnected"}]
  BY DEF TypeOK, Tell, Event

(***************************************************************************)
(* Type correctness                                                        *)
(***************************************************************************)

LEMMA CallTyped ==
  ASSUME TypeOK,
         \/ dsDisplayInit \/ \E t \in Callers : dsDisplayTerm(t)
         \/ \E cb \in Callbacks : Register(cb)
         \/ \E r \in Reporters : Spawn(r)
         \/ JoinReporter \/ StopWatcher \/ JoinWatcher
  PROVE  TypeOK'
<1> USE ClientAssumption DEF TypeOK, client, watch, reports, control, ApiPcs
<1>1. CASE dsDisplayInit
  <2>1. last' \in BOOLEAN /\ running' \in BOOLEAN /\ watcher' \in WatcherPcs
    BY <1>1 DEF dsDisplayInit, start_hdmi_watcher, WatcherPcs
  <2>2. told' \in [Listeners -> {"nothing", "connected", "disconnected"}]
    BY <1>1 DEF dsDisplayInit
  <2> QED
    BY <1>1, <2>1, <2>2 DEF dsDisplayInit
<1>2. CASE \E t \in Callers : dsDisplayTerm(t)
  BY <1>2 DEF dsDisplayTerm
<1>3. CASE \E cb \in Callbacks : Register(cb)
  BY <1>3 DEF Register, Listeners
<1>4. CASE \E r \in Reporters : Spawn(r)
  <2> PICK r \in Reporters : Spawn(r)
    BY <1>4
  <2>1. reporter' \in [Reporters -> ReporterPcs]
    BY DEF Spawn, ReporterPcs
  <2>2. rCall' \in [Reporters -> Listeners \cup {NULL}]
    BY DEF Spawn, Listeners
  <2>3. /\ joinable' \in Reporters \cup {0} /\ disturbed' \in BOOLEAN
        /\ api' \in ApiPcs
    BY DEF Spawn
  <2>4. UNCHANGED <<plug, last, client, watch, rSeen, inited, running, caller,
                    reentered>>
    BY DEF Spawn
  <2> QED
    BY <2>1, <2>2, <2>3, <2>4
<1>5. CASE JoinReporter
  BY <1>5 DEF JoinReporter
<1>6. CASE StopWatcher
  <2>1. running' \in BOOLEAN /\ api' \in ApiPcs
    BY <1>6 DEF StopWatcher
  <2>2. caller' \in Callers
    BY <1>6 DEF StopWatcher, Client, Callers
  <2> QED
    BY <1>6, <2>1, <2>2 DEF StopWatcher
<1>7. CASE JoinWatcher
  BY <1>7 DEF JoinWatcher, WatcherPcs, Client, Callers
<1> QED
  BY <1>1, <1>2, <1>3, <1>4, <1>5, <1>6, <1>7

LEMMA AudioTyped ==
  ASSUME TypeOK,
         \/ \E cb \in AudioCallbacks : dsAudioOutRegisterConnectCB(cb)
         \/ dsAudioPortTerm \/ Replug \/ UNCHANGED vars
  PROVE  TypeOK'
<1> USE DEF TypeOK, client, watch, reports, control
<1>1. CASE \E cb \in AudioCallbacks : dsAudioOutRegisterConnectCB(cb)
  BY <1>1 DEF dsAudioOutRegisterConnectCB
<1>2. CASE dsAudioPortTerm
  BY <1>2 DEF dsAudioPortTerm
<1>3. CASE Replug
  BY <1>3 DEF Replug, InFlight
<1>4. CASE UNCHANGED vars
  BY <1>4 DEF vars
<1> QED
  BY <1>1, <1>2, <1>3, <1>4

LEMMA WatcherTyped == ASSUME TypeOK, WatcherStep PROVE TypeOK'
<1> USE DEF client, watch, reports, control
<1>1. CASE WatcherStart \/ WatcherStop \/ WatcherQuery \/ WatcherSame
  BY <1>1 DEF TypeOK, WatcherPcs, WatcherStart, WatcherStop, WatcherQuery,
              WatcherSame, FirstSeen
<1>2. CASE WatcherChange \/ WatcherAudio
  BY <1>2 DEF TypeOK, WatcherPcs, WatcherChange, WatcherAudio, Listeners
<1>3. CASE WatcherNotify \/ WatcherAudioCall
  <2>1. told' \in [Listeners -> {"nothing", "connected", "disconnected"}]
    BY <1>3, TellTyped DEF WatcherNotify, WatcherAudioCall, TypeOK
  <2> QED
    BY <1>3, <2>1 DEF TypeOK, WatcherPcs, WatcherNotify, WatcherAudioCall
<1> QED
  BY <1>1, <1>2, <1>3 DEF WatcherStep

LEMMA ReporterTyped ==
  ASSUME TypeOK, NEW r \in Reporters, ReporterStep(r)
  PROVE  TypeOK'
<1> USE DEF client, watch, reports, control
<1>1. CASE ReporterGuard(r)
  <2>1. reporter' \in [Reporters -> ReporterPcs]
    BY <1>1 DEF TypeOK, ReporterPcs, ReporterGuard, RGoto, REnd
  <2>2. /\ rSeen' \in [Reporters -> BOOLEAN]
        /\ rCall' \in [Reporters -> Listeners \cup {NULL}]
    BY <1>1 DEF TypeOK, ReporterGuard, REnd
  <2> QED
    BY <1>1, <2>1, <2>2 DEF TypeOK, ReporterGuard
<1>2. CASE ReporterQuery(r)
  <2>1. CASE UNCHANGED <<rCall, disturbed>> /\ RGoto(r, "report")
    <3>1. reporter' \in [Reporters -> ReporterPcs]
      BY <2>1 DEF TypeOK, ReporterPcs, RGoto
    <3>2. rSeen' \in [Reporters -> BOOLEAN]
      BY <1>2 DEF TypeOK, ReporterQuery, REnd
    <3> QED
      BY <1>2, <2>1, <3>1, <3>2 DEF TypeOK, ReporterQuery
  <2>2. CASE disturbed' = TRUE /\ REnd(r)
    BY <1>2, <2>2 DEF TypeOK, ReporterPcs, ReporterQuery, RGoto, REnd
  <2> QED
    BY <1>2, <2>1, <2>2 DEF ReporterQuery
<1>3. CASE ReporterReport(r)
  <2>1. told' \in [Listeners -> {"nothing", "connected", "disconnected"}]
    BY <1>3, TellTyped DEF ReporterReport, TypeOK
  <2> QED
    BY <1>3, <2>1 DEF TypeOK, ReporterPcs, ReporterReport, RGoto
<1>4. CASE ReporterAudio(r)
  BY <1>4 DEF TypeOK, ReporterPcs, ReporterAudio, RGoto, Listeners
<1>5. CASE ReporterAudioCall(r)
  <2>1. told' \in [Listeners -> {"nothing", "connected", "disconnected"}]
    BY <1>5, TellTyped DEF ReporterAudioCall, TypeOK
  <2> QED
    BY <1>5, <2>1 DEF TypeOK, ReporterPcs, ReporterAudioCall, REnd, RGoto
<1> QED
  BY <1>1, <1>2, <1>3, <1>4, <1>5 DEF ReporterStep

LEMMA TypeStep == TypeOK /\ [Next]_vars => TypeOK'
  BY CallTyped, AudioTyped, WatcherTyped, ReporterTyped DEF Next, ApiStep

LEMMA TypeInit == Init => TypeOK
<1> SUFFICES ASSUME Init PROVE TypeOK
  OBVIOUS
<1>1. caller \in Callers /\ joinable \in Reporters \cup {0}
  BY ClientAssumption DEF Init, Client, Callers
<1>2. reporter \in [Reporters -> ReporterPcs] /\ rSeen \in [Reporters -> BOOLEAN]
  BY DEF Init, ReporterPcs
<1>3. rCall \in [Reporters -> Listeners \cup {NULL}]
  BY DEF Init
<1>4. told \in [Listeners -> {"nothing", "connected", "disconnected"}]
  BY DEF Init
<1> QED
  BY <1>1, <1>2, <1>3, <1>4 DEF Init, TypeOK, WatcherPcs, ApiPcs

\* Every variable keeps its type, and a listener hears nothing but a lost or a
\* new connection.
THEOREM WellTyped == Spec => []TypeOK
  BY TypeInit, TypeStep, PTL DEF Spec

(***************************************************************************)
(* dsDisplayTerm                                                           *)
(***************************************************************************)

\* The new reporter is the one to join; those before it have a successor.
LEMMA SpawnKeeps ==
  ASSUME TypeOK, Phases, Succession, NEW r \in Reporters, Spawn(r)
  PROVE  Phases' /\ Succession'
<1>1. Phases'
  BY DEF Phases, Spawn, watch
<1>2. CASE UNCHANGED <<reporter, rCall, joinable>>
  <2>1. reporter' = reporter /\ joinable' = joinable
    BY <1>2
  <2> QED
    BY <1>1, <2>1 DEF Succession, Alive
<1>3. CASE reporter' = [reporter EXCEPT ![r] = "sleep"] /\ joinable' = r
  <2>1. \A q \in Reporters : reporter'[q] # "none" <=> q = r \/ reporter[q] # "none"
    BY <1>3 DEF TypeOK
  <2>2. \A q \in Reporters : q < r => reporter[q] # "none"
    BY DEF Spawn
  <2>3. \A q \in Reporters : reporter[q] # "none" => q < r
    BY DEF Succession, Spawn, Reporters
  <2>4. ASSUME NEW q \in Reporters, reporter'[q] # "none",
               NEW p \in Reporters, p < q
        PROVE  reporter'[p] # "none"
    BY <2>1, <2>2, <2>4 DEF Succession
  <2>5. ASSUME NEW q \in Reporters, Alive(q)'
        PROVE  joinable' = q \/ \E p \in Reporters : p > q /\ reporter'[p] # "none"
    <3>1. CASE q = r
      BY <1>3, <3>1
    <3>2. CASE q # r
      <4>1. reporter[q] # "none"
        BY <2>1, <2>5, <3>2 DEF Alive
      <4>2. r > q
        BY <2>3, <4>1 DEF Reporters
      <4> QED
        BY <2>1, <4>2
    <3> QED
      BY <3>1, <3>2
  <2> QED
    BY <1>1, <2>4, <2>5 DEF Succession, Alive
<1> QED
  BY <1>1, <1>2, <1>3 DEF Spawn

LEMMA CallKeeps ==
  ASSUME TypeOK, Phases, Succession, ~reentered',
         \/ dsDisplayInit \/ \E t \in Callers : dsDisplayTerm(t)
         \/ \E cb \in Callbacks : Register(cb)
         \/ JoinReporter \/ StopWatcher \/ JoinWatcher
  PROVE  Phases' /\ Succession'
<1> USE DEF reports, watch
<1>1. CASE dsDisplayInit
  BY <1>1 DEF Phases, Succession, Alive, dsDisplayInit, start_hdmi_watcher
<1>2. CASE \E t \in Callers : dsDisplayTerm(t)
  <2> PICK t \in Callers : dsDisplayTerm(t)
    BY <1>2
  <2>1. caller' = t /\ reentered' = (reentered \/ t # Client)
    BY DEF dsDisplayTerm
  <2>2. caller' = Client
    BY <2>1
  <2>3. Phases'
    BY <2>2 DEF Phases, dsDisplayTerm
  <2>4. Succession'
    BY DEF Succession, Alive, dsDisplayTerm
  <2> QED
    BY <2>3, <2>4
<1>3. CASE \E cb \in Callbacks : Register(cb)
  BY <1>3 DEF Phases, Succession, Alive, Register
<1>4. CASE JoinReporter
  <2>1. Phases'
    BY <1>4 DEF Phases, JoinReporter
  <2>2. \A r \in Reporters : joinable = r => ~Alive(r)
    BY <1>4, ClientAssumption
       DEF Phases, JoinReporter, Joined, Alive, Client, Reporters
  <2> QED
    BY <1>4, <2>1, <2>2 DEF Succession, Alive, JoinReporter
<1>5. CASE StopWatcher
  BY <1>5 DEF Phases, Succession, Alive, StopWatcher
<1>6. CASE JoinWatcher
  <2>1. Client # Watcher
    BY ClientAssumption DEF Client, Watcher
  <2> QED
    BY <1>6, <2>1 DEF Phases, Succession, Alive, JoinWatcher
<1> QED
  BY <1>1, <1>2, <1>3, <1>4, <1>5, <1>6

LEMMA WatcherKeeps ==
  ASSUME TypeOK, Phases, Succession, WatcherStep
  PROVE  Phases' /\ Succession'
<1>1. watcher # "none" /\ UNCHANGED control /\ UNCHANGED reporter
  BY DEF WatcherStep, WatcherStart, WatcherStop, WatcherQuery, WatcherSame,
         WatcherChange, WatcherNotify, WatcherAudio, WatcherAudioCall, reports
<1> QED
  BY <1>1, WatcherFrame

LEMMA ReporterKeeps ==
  ASSUME TypeOK, Phases, Succession, NEW r \in Reporters, ReporterStep(r)
  PROVE  Phases' /\ Succession'
<1>1. Alive(r)
  BY DEF ReporterStep, ReporterGuard, ReporterQuery, ReporterReport, ReporterAudio,
         ReporterAudioCall, Alive
<1>2. UNCHANGED control /\ UNCHANGED watcher
  BY DEF ReporterStep, ReporterGuard, ReporterQuery, ReporterReport, ReporterAudio,
         ReporterAudioCall, watch
<1>3. \E pc \in ReporterPcs \ {"none"} : reporter' = [reporter EXCEPT ![r] = pc]
  BY DEF ReporterStep, ReporterGuard, ReporterQuery, ReporterReport, ReporterAudio,
         ReporterAudioCall, RGoto, REnd, ReporterPcs
<1> QED
  BY <1>1, <1>2, <1>3, ReporterFrame

LEMMA OtherKeeps ==
  ASSUME Phases, Succession,
         \/ \E cb \in AudioCallbacks : dsAudioOutRegisterConnectCB(cb)
         \/ dsAudioPortTerm \/ Replug \/ UNCHANGED vars
  PROVE  Phases' /\ Succession'
<1>1. UNCHANGED control /\ UNCHANGED <<watcher, reporter>>
  BY DEF dsAudioOutRegisterConnectCB, dsAudioPortTerm, Replug, vars, watch, reports
<1> QED
  BY <1>1, Frame

\* The history of calls from a callback is never forgotten.
LEMMA StaysReentered == TypeOK /\ [Next]_vars /\ reentered => reentered'
<1> SUFFICES ASSUME TypeOK, [Next]_vars, reentered PROVE reentered'
  OBVIOUS
<1> USE DEF control
<1>1. CASE UNCHANGED vars
  BY <1>1 DEF vars
<1>2. CASE dsDisplayInit \/ (\E t \in Callers : dsDisplayTerm(t))
           \/ (\E cb \in Callbacks : Register(cb)) \/ ApiStep
  BY <1>2 DEF dsDisplayInit, dsDisplayTerm, Register, ApiStep, Spawn, JoinReporter,
              StopWatcher, JoinWatcher
<1>3. CASE Replug \/ dsAudioPortTerm
           \/ \E cb \in AudioCallbacks : dsAudioOutRegisterConnectCB(cb)
  BY <1>3 DEF Replug, dsAudioPortTerm, dsAudioOutRegisterConnectCB
<1>4. CASE WatcherStep
  BY <1>4 DEF WatcherStep, WatcherStart, WatcherStop, WatcherQuery, WatcherSame,
              WatcherChange, WatcherNotify, WatcherAudio, WatcherAudioCall
<1>5. CASE \E r \in Reporters : ReporterStep(r)
  BY <1>5 DEF ReporterStep, ReporterGuard, ReporterQuery, ReporterReport,
              ReporterAudio, ReporterAudioCall
<1> QED
  BY <1>1, <1>2, <1>3, <1>4, <1>5 DEF Next

LEMMA Invariant == Spec => []IInv
<1>1. Init => IInv
  <2> SUFFICES ASSUME Init PROVE IInv
    OBVIOUS
  <2>1. Phases /\ Succession
    BY DEF Init, Phases, Succession, Alive
  <2> QED
    BY <2>1, TypeInit DEF IInv
<1>2. IInv /\ [Next]_vars => IInv'
  <2> SUFFICES ASSUME IInv, [Next]_vars PROVE IInv'
    OBVIOUS
  <2>1. TypeOK'
    BY TypeStep DEF IInv
  <2>2. ASSUME ~reentered' PROVE Phases' /\ Succession'
    <3>1. ~reentered
      BY <2>2, StaysReentered DEF IInv
    <3> QED
      BY <2>2, <3>1, CallKeeps, SpawnKeeps, WatcherKeeps, ReporterKeeps, OtherKeeps
         DEF Next, ApiStep, IInv
  <2> QED
    BY <2>1, <2>2 DEF IInv
<1> QED
  BY <1>1, <1>2, PTL DEF Spec

\* dsDisplayTerm joins every thread that it knows: unless a callback has called
\* it, once it has returned the watcher has ended, and so has the reporter
\* created last.
THEOREM ThreadsJoined == Spec => []TermJoins
<1>1. IInv => TermJoins
  <2> SUFFICES ASSUME IInv, Terminated, ~reentered PROVE
        /\ watcher = "none"
        /\ \A r \in Reporters :
             InFlight(r) => \E q \in Reporters : q > r /\ reporter[q] # "none"
    BY DEF TermJoins
  <2>1. watcher = "none" /\ joinable = 0
    BY DEF IInv, Phases, Terminated
  <2>2. \A r \in Reporters : joinable # r
    BY <2>1 DEF Reporters
  <2> QED
    BY <2>1, <2>2 DEF IInv, Succession, Alive, InFlight
<1> QED
  BY <1>1, Invariant, PTL

(***************************************************************************)
(* What the clients know                                                   *)
(***************************************************************************)

\* A thread about to call a display event callback has none of audio's, and
\* the other way round.
Callees ==
  /\ watcher = "notify" => wCall \in Callbacks \cup {NULL}
  /\ watcher = "audioCall" => wCall \in AudioCallbacks \cup {NULL}
  /\ \A r \in Reporters :
       /\ reporter[r] \in {"sleep", "query", "report"} => rCall[r] \in Callbacks \cup {NULL}
       /\ reporter[r] = "audioCall" => rCall[r] \in AudioCallbacks \cup {NULL}

\* The watcher's own memory is gLastHdmiConnected, what it tells is what it has
\* recorded there, and a change that it is about to record is the cable as it
\* is.
Recorded ==
  /\ watcher \in {"loop", "compare", "notify", "audio", "audioCall"} => wLast = last
  /\ watcher \in {"notify", "audio", "audioCall"} => wSeen = last
  /\ watcher = "compare" /\ wSeen # wLast /\ ~disturbed => wSeen = plug

\* What the reporters are about to tell is true.
Fresh == ~disturbed => \A r \in Reporters : InFlight(r) => rSeen[r] = plug

\* Until it knows the state, the client has a reporter that is going to tell it
\* or the watcher has, or has something to record.
ClientInformed ==
  callback # NULL =>
    /\ inited
    /\ ~disturbed /\ api # "spawn" =>
         \/ last # plug
         \/ told[callback] = Event(plug)
         \/ \E r \in Reporters :
              rCall[r] = callback /\ reporter[r] \in {"sleep", "query", "report"}
         \/ watcher = "notify" /\ wCall = callback

AudioInformed ==
  inited /\ audioCb # NULL /\ ~disturbed =>
    \/ last # plug
    \/ told[audioCb] \in {"nothing", Event(plug)}
    \/ watcher \in {"notify", "audio"}
    \/ watcher = "audioCall" /\ wCall = audioCb

TruthInv == Callees /\ Recorded /\ Fresh /\ ClientInformed /\ AudioInformed

LEMMA TellFacts ==
  ASSUME TypeOK, NEW cb \in Listeners \cup {NULL}, NEW b \in BOOLEAN, Tell(cb, b)
  PROVE  /\ \A l \in Listeners : l # cb => told'[l] = told[l]
         /\ cb \in Listeners => told'[cb] = Event(b)
BY ClientAssumption DEF Tell, TypeOK, Listeners

\* A cable event that disturbs nothing comes when all that was noticed has been
\* recorded, and is a change from it.
LEMMA ReplugTrue ==
  ASSUME TypeOK, TruthInv, Replug
  PROVE  TruthInv'
<1>1. UNCHANGED <<last, client, watch, reports, control>>
  BY DEF Replug
<1>2. plug \in BOOLEAN /\ plug' \in BOOLEAN /\ plug' # plug /\ last \in BOOLEAN
  BY DEF Replug, TypeOK
<1>3. ~disturbed' => ~disturbed /\ last = plug /\ \A r \in Reporters : ~InFlight(r)
  BY DEF Replug, TypeOK
<1>4. ~disturbed' => last' # plug'
  BY <1>1, <1>2, <1>3
<1>. USE DEF TruthInv, client, watch, reports, control
<1>5. Callees'  BY <1>1 DEF Callees
<1>6. Recorded'  BY <1>1, <1>3 DEF Recorded
<1>7. Fresh'  BY <1>1, <1>3 DEF Fresh, InFlight
<1>8. ClientInformed' /\ AudioInformed'
  BY <1>1, <1>4 DEF ClientInformed, AudioInformed
<1>. QED BY <1>5, <1>6, <1>7, <1>8

\* A new session: nobody has been told anything, and no watcher is left.
LEMMA InitTrue ==
  ASSUME IInv, TruthInv, dsDisplayInit
  PROVE  TruthInv'
<1>1. /\ ~inited /\ told' = [l \in Listeners |-> "nothing"]
      /\ UNCHANGED <<plug, disturbed, callback, audioCb, wLast, wSeen, wCall, reports>>
      /\ watcher' \in {watcher, "start"}
  BY DEF dsDisplayInit, start_hdmi_watcher
<1>2. watcher = "none"
  BY DEF IInv, Phases, dsDisplayInit
<1>3. callback = NULL
  BY <1>1 DEF TruthInv, ClientInformed
<1>. USE DEF TruthInv, reports
<1>4. Callees' /\ Recorded'
  BY <1>1, <1>2 DEF Callees, Recorded
<1>5. Fresh'
  BY <1>1 DEF Fresh, InFlight
<1>6. ClientInformed'
  BY <1>1, <1>3 DEF ClientInformed
<1>7. AudioInformed'
  <2>1. audioCb # NULL => told'[audioCb] = "nothing"
    BY <1>1 DEF IInv, TypeOK, Listeners
  <2>. QED BY <1>1, <2>1 DEF AudioInformed
<1>. QED BY <1>4, <1>5, <1>6, <1>7

\* The other steps of the API.
LEMMA CallTrue ==
  ASSUME TypeOK, TruthInv,
         \/ \E t \in Callers : dsDisplayTerm(t)
         \/ \E cb \in Callbacks : Register(cb)
         \/ JoinReporter \/ StopWatcher \/ JoinWatcher
  PROVE  TruthInv'
<1>. USE DEF TruthInv, client, watch, reports
<1>1. CASE \E t \in Callers : dsDisplayTerm(t)
  <2>1. /\ callback' = NULL /\ inited' = FALSE
        /\ UNCHANGED <<plug, last, disturbed, watch, reports>>
    BY <1>1 DEF dsDisplayTerm
  <2>. QED BY <2>1 DEF Callees, Recorded, Fresh, InFlight, ClientInformed, AudioInformed
<1>2. CASE \E cb \in Callbacks : Register(cb)
  <2>. PICK cb \in Callbacks : Register(cb)
    BY <1>2
  <2>1. /\ callback' = cb /\ api' = "spawn" /\ inited
        /\ told' = [told EXCEPT ![cb] = "nothing"]
        /\ UNCHANGED <<plug, last, disturbed, audioCb, watch, reports, inited>>
    BY DEF Register
  <2>2. Callees' /\ Recorded' /\ Fresh' /\ ClientInformed'
    BY <2>1 DEF Callees, Recorded, Fresh, InFlight, ClientInformed
  <2>3. audioCb # NULL => told'[audioCb] = told[audioCb]
    BY <2>1, ClientAssumption DEF TypeOK, Listeners
  <2>4. AudioInformed'
    BY <2>1, <2>3 DEF AudioInformed
  <2>. QED BY <2>2, <2>4
<1>3. CASE JoinReporter \/ StopWatcher \/ JoinWatcher
  <2>1. UNCHANGED <<plug, last, disturbed, client, wLast, wSeen, wCall, reports, inited>>
    BY <1>3 DEF JoinReporter, StopWatcher, JoinWatcher
  <2>2. watcher' \in {watcher, "none"} /\ (watcher' # watcher => watcher = "done")
    BY <1>3 DEF JoinReporter, StopWatcher, JoinWatcher
  <2>3. api # "spawn"
    BY <1>3 DEF JoinReporter, StopWatcher, JoinWatcher
  <2>4. Callees' /\ Recorded' /\ Fresh'
    BY <2>1, <2>2 DEF Callees, Recorded, Fresh, InFlight
  <2>5. ClientInformed' /\ AudioInformed'
    BY <2>1, <2>2, <2>3 DEF ClientInformed, AudioInformed
  <2>. QED BY <2>4, <2>5
<1>. QED BY <1>1, <1>2, <1>3

\* The new reporter is going to tell the client that has just registered.
LEMMA SpawnTrue ==
  ASSUME TypeOK, TruthInv, NEW r \in Reporters, Spawn(r)
  PROVE  TruthInv'
<1>. USE DEF TruthInv, client, watch
<1>1. /\ reporter[r] = "none" /\ api = "spawn"
      /\ UNCHANGED <<plug, last, client, watch, rSeen, inited>>
  BY DEF Spawn
<1>2. CASE disturbed' = TRUE /\ UNCHANGED <<reporter, rCall>>
  BY <1>1, <1>2 DEF Callees, Recorded, Fresh, ClientInformed, AudioInformed
<1>3. CASE /\ reporter' = [reporter EXCEPT ![r] = "sleep"]
           /\ rCall' = [rCall EXCEPT ![r] = callback]
           /\ UNCHANGED disturbed
  <2>1. reporter'[r] = "sleep" /\ rCall'[r] = callback
    BY <1>3 DEF TypeOK
  <2>2. \A q \in Reporters : q # r => reporter'[q] = reporter[q] /\ rCall'[q] = rCall[q]
    BY <1>3 DEF TypeOK
  <2>3. Callees'
    BY <1>1, <2>1, <2>2 DEF Callees, TypeOK
  <2>4. Recorded' /\ AudioInformed'
    BY <1>1, <1>3 DEF Recorded, AudioInformed
  <2>5. Fresh'
    BY <1>1, <1>3, <2>1, <2>2 DEF Fresh, InFlight
  <2>6. ClientInformed'
    BY <1>1, <2>1 DEF ClientInformed
  <2>. QED BY <2>3, <2>4, <2>5, <2>6
<1>. QED BY <1>2, <1>3 DEF Spawn

LEMMA AudioTrue ==
  ASSUME TypeOK, TruthInv,
         dsAudioPortTerm \/ \E cb \in AudioCallbacks : dsAudioOutRegisterConnectCB(cb)
  PROVE  TruthInv'
<1>. USE DEF TruthInv, watch, reports, control
<1>1. UNCHANGED <<plug, last, disturbed, callback, watch, reports, control>>
  BY DEF dsAudioPortTerm, dsAudioOutRegisterConnectCB
<1>2. Callees' /\ Recorded' /\ Fresh'
  BY <1>1 DEF Callees, Recorded, Fresh, InFlight
<1>3. CASE dsAudioPortTerm
  <2>1. audioCb' = NULL /\ told' = told  BY <1>3 DEF dsAudioPortTerm
  <2>. QED BY <1>1, <1>2, <2>1 DEF ClientInformed, AudioInformed
<1>4. CASE \E cb \in AudioCallbacks : dsAudioOutRegisterConnectCB(cb)
  <2>. PICK cb \in AudioCallbacks : dsAudioOutRegisterConnectCB(cb)
    BY <1>4
  <2>1. audioCb' = cb /\ told' = [told EXCEPT ![cb] = "nothing"]
    BY DEF dsAudioOutRegisterConnectCB
  <2>2. told'[audioCb'] = "nothing"
    BY <2>1 DEF TypeOK, Listeners
  <2>3. callback # NULL => told'[callback] = told[callback]
    BY <2>1, ClientAssumption DEF TypeOK, Listeners
  <2>4. ClientInformed'
    BY <1>1, <2>3 DEF ClientInformed
  <2>5. AudioInformed'
    BY <2>2 DEF AudioInformed
  <2>. QED BY <1>2, <2>4, <2>5
<1>. QED BY <1>3, <1>4

\* The watcher, up to the change that it records.
LEMMA WatcherSeesTrue ==
  ASSUME TypeOK, TruthInv,
         WatcherStart \/ WatcherStop \/ WatcherQuery \/ WatcherSame \/ WatcherChange
  PROVE  TruthInv'
<1>. USE DEF TruthInv, client, reports, control
<1>1. /\ watcher \in {"start", "loop", "compare"}
      /\ UNCHANGED <<plug, disturbed, client, reports, control>>
  BY DEF WatcherStart, WatcherStop, WatcherQuery, WatcherSame, WatcherChange
<1>2. Fresh'
  BY <1>1 DEF Fresh, InFlight
<1>3. CASE WatcherStart \/ WatcherStop \/ WatcherQuery \/ WatcherSame
  <2>1. /\ UNCHANGED <<last, wCall>> /\ watcher' \in {"loop", "done", "compare"}
        /\ watcher' = "compare" => wSeen' = plug
    BY <1>3 DEF WatcherStart, WatcherStop, WatcherQuery, WatcherSame
  <2>2. watcher' # "done" => wLast' = last
    BY <1>3 DEF WatcherStart, WatcherStop, WatcherQuery, WatcherSame, FirstSeen, Recorded
  <2>3. Callees' /\ Recorded'
    BY <1>1, <2>1, <2>2 DEF Callees, Recorded
  <2>4. ClientInformed' /\ AudioInformed'
    BY <1>1, <2>1 DEF ClientInformed, AudioInformed
  <2>. QED BY <1>2, <2>3, <2>4
<1>4. CASE WatcherChange
  <2>1. /\ watcher = "compare" /\ wSeen # wLast
        /\ wLast' = wSeen /\ last' = wSeen /\ wCall' = callback /\ watcher' = "notify"
        /\ wSeen' = wSeen
    BY <1>4 DEF WatcherChange, Noticed
  <2>2. Callees'
    BY <1>1, <2>1 DEF Callees, TypeOK
  <2>3. Recorded'
    BY <2>1 DEF Recorded
  <2>4. ClientInformed' /\ AudioInformed'
    BY <1>1, <2>1 DEF ClientInformed, AudioInformed
  <2>. QED BY <1>2, <2>2, <2>3, <2>4
<1>. QED BY <1>3, <1>4

\* The watcher tells what it has recorded.
LEMMA WatcherTellsTrue ==
  ASSUME TypeOK, TruthInv, WatcherNotify \/ WatcherAudio \/ WatcherAudioCall
  PROVE  TruthInv'
<1>. USE DEF TruthInv, reports, control
<1>1. /\ watcher \in {"notify", "audio", "audioCall"}
      /\ UNCHANGED <<plug, last, disturbed, callback, audioCb, wLast, wSeen, reports, control>>
  BY DEF WatcherNotify, WatcherAudio, WatcherAudioCall, client
<1>2. wSeen = last /\ wLast = last /\ wSeen \in BOOLEAN
  BY <1>1 DEF Recorded, TypeOK
<1>3. Fresh'
  BY <1>1 DEF Fresh, InFlight
<1>4. callback \in Callbacks \cup {NULL} /\ audioCb \in AudioCallbacks \cup {NULL}
  BY DEF TypeOK
<1>5. CASE WatcherNotify
  <2>1. wCall \in Callbacks \cup {NULL} /\ Tell(wCall, wSeen) /\ watcher' = "audio"
    BY <1>5 DEF WatcherNotify, Callees
  <2>2. /\ \A l \in Listeners : l # wCall => told'[l] = told[l]
        /\ wCall \in Listeners => told'[wCall] = Event(wSeen)
    BY <1>2, <2>1, TellFacts DEF Listeners
  <2>3. Callees' /\ Recorded' /\ AudioInformed'
    BY <1>1, <1>2, <2>1 DEF Callees, Recorded, AudioInformed
  <2>4. ClientInformed'
    <3>1. CASE callback = wCall
      BY <1>1, <1>2, <1>4, <2>1, <2>2, <3>1 DEF ClientInformed, Listeners
    <3>2. CASE callback # wCall
      BY <1>1, <1>4, <2>1, <2>2, <3>2 DEF ClientInformed, Listeners
    <3>. QED BY <3>1, <3>2
  <2>. QED BY <1>3, <2>3, <2>4
<1>6. CASE WatcherAudio
  <2>1. watcher = "audio" /\ wCall' = audioCb /\ watcher' = "audioCall" /\ told' = told
    BY <1>6 DEF WatcherAudio, client
  <2>2. Callees' /\ Recorded'
    BY <1>1, <1>2, <1>4, <2>1 DEF Callees, Recorded
  <2>3. ClientInformed' /\ AudioInformed'
    BY <1>1, <2>1 DEF ClientInformed, AudioInformed
  <2>. QED BY <1>3, <2>2, <2>3
<1>7. CASE WatcherAudioCall
  <2>1. /\ wCall \in AudioCallbacks \cup {NULL} /\ Tell(wCall, wSeen)
        /\ watcher = "audioCall" /\ watcher' = "loop"
    BY <1>7 DEF WatcherAudioCall, Callees
  <2>2. /\ \A l \in Listeners : l # wCall => told'[l] = told[l]
        /\ wCall \in Listeners => told'[wCall] = Event(wSeen)
    BY <1>2, <2>1, TellFacts DEF Listeners
  <2>3. Callees' /\ Recorded'
    BY <1>1, <1>2, <2>1 DEF Callees, Recorded
  <2>4. callback # NULL => told'[callback] = told[callback]
    BY <1>4, <2>1, <2>2, ClientAssumption DEF Listeners
  <2>5. ClientInformed'
    BY <1>1, <2>1, <2>4 DEF ClientInformed
  <2>6. AudioInformed'
    <3>1. CASE audioCb = wCall
      BY <1>1, <1>2, <1>4, <2>1, <2>2, <3>1 DEF AudioInformed, Listeners
    <3>2. CASE audioCb # wCall
      BY <1>1, <1>4, <2>1, <2>2, <3>2 DEF AudioInformed, Listeners
    <3>. QED BY <3>1, <3>2
  <2>. QED BY <1>3, <2>3, <2>5, <2>6
<1>. QED BY <1>5, <1>6, <1>7

\* A reporter reads the connector, or does not report at all.
LEMMA ReporterReadsTrue ==
  ASSUME TypeOK, TruthInv, NEW r \in Reporters, ReporterGuard(r) \/ ReporterQuery(r)
  PROVE  TruthInv'
<1>. USE DEF TruthInv, client, watch, control
<1>1. /\ reporter[r] \in {"sleep", "query"}
      /\ UNCHANGED <<plug, last, client, watch, control>>
  BY DEF ReporterGuard, ReporterQuery
<1>2. \A q \in Reporters : q # r =>
        reporter'[q] = reporter[q] /\ rSeen'[q] = rSeen[q] /\ rCall'[q] = rCall[q]
  BY DEF TypeOK, ReporterGuard, ReporterQuery, RGoto, REnd
<1>3. \/ reporter'[r] = "query" /\ rCall' = rCall /\ disturbed' = disturbed
      \/ /\ reporter'[r] = "report" /\ rCall' = rCall /\ rSeen'[r] = plug
         /\ disturbed' = disturbed
      \/ /\ reporter'[r] = "done"
         /\ (disturbed' = disturbed /\ ~inited) \/ disturbed'
  BY DEF TypeOK, ReporterGuard, ReporterQuery, RGoto, REnd
<1>4. ~disturbed' => ~disturbed
  BY <1>3
<1>5. Callees'
  BY <1>1, <1>2, <1>3 DEF Callees
<1>6. Recorded' /\ AudioInformed'
  BY <1>1, <1>4 DEF Recorded, AudioInformed
<1>7. Fresh'
  <2>. SUFFICES ASSUME ~disturbed', NEW q \in Reporters, InFlight(q)' PROVE rSeen'[q] = plug'
    BY DEF Fresh
  <2>1. CASE q = r  BY <1>1, <1>3, <2>1 DEF InFlight
  <2>2. CASE q # r  BY <1>1, <1>2, <1>4, <2>2 DEF Fresh, InFlight
  <2>. QED BY <2>1, <2>2
<1>8. ClientInformed'
  BY <1>1, <1>2, <1>3, <1>4 DEF ClientInformed
<1>. QED BY <1>5, <1>6, <1>7, <1>8

\* What it tells, its own client and the audio client, is true.
LEMMA ReporterTellsTrue ==
  ASSUME TypeOK, TruthInv, NEW r \in Reporters,
         ReporterReport(r) \/ ReporterAudio(r) \/ ReporterAudioCall(r)
  PROVE  TruthInv'
<1>. USE DEF TruthInv, watch, control
<1>1. /\ InFlight(r)
      /\ UNCHANGED <<plug, last, disturbed, callback, audioCb, watch, control>>
  BY DEF ReporterReport, ReporterAudio, ReporterAudioCall, client, InFlight
<1>2. \A q \in Reporters : q # r =>
        reporter'[q] = reporter[q] /\ rSeen'[q] = rSeen[q] /\ rCall'[q] = rCall[q]
  BY DEF TypeOK, ReporterReport, ReporterAudio, ReporterAudioCall, RGoto, REnd
<1>3. reporter'[r] \in {"audio", "audioCall", "done"}
      /\ (reporter'[r] # "done" => rSeen' = rSeen)
  BY DEF TypeOK, ReporterReport, ReporterAudio, ReporterAudioCall, RGoto, REnd
<1>4. rSeen[r] \in BOOLEAN /\ (~disturbed => rSeen[r] = plug)
  BY <1>1 DEF TypeOK, Fresh
<1>5. Recorded'
  BY <1>1 DEF Recorded
<1>6. Fresh'
  <2>. SUFFICES ASSUME ~disturbed', NEW q \in Reporters, InFlight(q)' PROVE rSeen'[q] = plug'
    BY DEF Fresh
  <2>1. CASE q = r  BY <1>1, <1>3, <1>4, <2>1 DEF InFlight
  <2>2. CASE q # r  BY <1>1, <1>2, <2>2 DEF Fresh, InFlight
  <2>. QED BY <2>1, <2>2
<1>7. callback \in Callbacks \cup {NULL} /\ audioCb \in AudioCallbacks \cup {NULL}
  BY DEF TypeOK
<1>8. CASE ReporterReport(r)
  <2>1. /\ rCall[r] \in Callbacks \cup {NULL} /\ Tell(rCall[r], rSeen[r])
        /\ reporter[r] = "report" /\ rCall' = rCall
    BY <1>8 DEF ReporterReport, Callees
  <2>2. /\ \A l \in Listeners : l # rCall[r] => told'[l] = told[l]
        /\ rCall[r] \in Listeners => told'[rCall[r]] = Event(rSeen[r])
    BY <1>4, <2>1, TellFacts DEF Listeners
  <2>3. reporter'[r] = "audio"
    BY <1>8 DEF ReporterReport, RGoto, TypeOK
  <2>4. Callees'
    BY <1>1, <1>2, <2>1, <2>3 DEF Callees
  <2>5. audioCb # NULL => told'[audioCb] = told[audioCb]
    BY <1>7, <2>1, <2>2, ClientAssumption DEF Listeners
  <2>6. AudioInformed'
    BY <1>1, <2>5 DEF AudioInformed
  <2>7. ClientInformed'
    <3>1. CASE callback = rCall[r]
      BY <1>1, <1>4, <1>7, <2>1, <2>2, <3>1 DEF ClientInformed, Listeners
    <3>2. CASE callback # rCall[r]
      BY <1>1, <1>2, <1>7, <2>1, <2>2, <3>2 DEF ClientInformed, Listeners
    <3>. QED BY <3>1, <3>2
  <2>. QED BY <1>5, <1>6, <2>4, <2>6, <2>7
<1>9. CASE ReporterAudio(r)
  <2>1. /\ reporter[r] = "audio" /\ reporter'[r] = "audioCall" /\ rCall'[r] = audioCb
        /\ told' = told
    BY <1>9 DEF ReporterAudio, RGoto, TypeOK, client
  <2>2. Callees'
    BY <1>1, <1>2, <1>7, <2>1 DEF Callees
  <2>3. ClientInformed'
    BY <1>1, <1>2, <2>1 DEF ClientInformed
  <2>4. AudioInformed'
    BY <1>1, <2>1 DEF AudioInformed
  <2>. QED BY <1>5, <1>6, <2>2, <2>3, <2>4
<1>10. CASE ReporterAudioCall(r)
  <2>1. /\ rCall[r] \in AudioCallbacks \cup {NULL} /\ Tell(rCall[r], rSeen[r])
        /\ reporter[r] = "audioCall"
    BY <1>10 DEF ReporterAudioCall, Callees
  <2>2. /\ \A l \in Listeners : l # rCall[r] => told'[l] = told[l]
        /\ rCall[r] \in Listeners => told'[rCall[r]] = Event(rSeen[r])
    BY <1>4, <2>1, TellFacts DEF Listeners
  <2>3. reporter'[r] = "done"
    BY <1>10 DEF ReporterAudioCall, REnd, RGoto, TypeOK
  <2>4. Callees'
    BY <1>1, <1>2, <2>3 DEF Callees
  <2>5. callback # NULL => told'[callback] = told[callback]
    BY <1>7, <2>1, <2>2, ClientAssumption DEF Listeners
  <2>6. ClientInformed'
    BY <1>1, <1>2, <2>1, <2>5 DEF ClientInformed
  <2>7. AudioInformed'
    <3>1. CASE audioCb = rCall[r]
      BY <1>1, <1>4, <1>7, <2>1, <2>2, <3>1 DEF AudioInformed, Listeners
    <3>2. CASE audioCb # rCall[r]
      BY <1>1, <1>7, <2>1, <2>2, <3>2 DEF AudioInformed, Listeners
    <3>. QED BY <3>1, <3>2
  <2>. QED BY <1>5, <1>6, <2>4, <2>6, <2>7
<1>. QED BY <1>8, <1>9, <1>10

LEMMA TruthStep == IInv /\ TruthInv /\ [Next]_vars => TruthInv'
<1>. SUFFICES ASSUME IInv, TruthInv, [Next]_vars PROVE TruthInv'
  OBVIOUS
<1>. TypeOK  BY DEF IInv
<1>1. CASE UNCHANGED vars
  BY <1>1 DEF vars, client, watch, reports, control, TruthInv, Callees, Recorded, Fresh,
              InFlight, ClientInformed, AudioInformed
<1>2. CASE WatcherStep
  BY <1>2, WatcherSeesTrue, WatcherTellsTrue DEF WatcherStep
<1>3. CASE \E r \in Reporters : ReporterStep(r)
  BY <1>3, ReporterReadsTrue, ReporterTellsTrue DEF ReporterStep
<1>4. CASE Next /\ ~WatcherStep /\ ~\E r \in Reporters : ReporterStep(r)
  BY <1>4, ReplugTrue, InitTrue, CallTrue, SpawnTrue, AudioTrue DEF Next, ApiStep
<1>. QED BY <1>1, <1>2, <1>3, <1>4

\* A client that has registered ends up knowing the true state of the cable,
\* however registrations, sessions, failures, events and threads follow each
\* other, as long as no event is lost between two polls or overtakes a report.
THEOREM ClientsKnow == Spec => []SettledTruth
<1>1. Init => TruthInv
  BY DEF Init, TruthInv, Callees, Recorded, Fresh, InFlight, ClientInformed, AudioInformed
<1>2. IInv /\ TruthInv => SettledTruth
  BY DEF TruthInv, Recorded, ClientInformed, AudioInformed, SettledTruth, Settled
<1>. QED BY <1>1, <1>2, TruthStep, Invariant, PTL DEF Spec
=============================================================================
