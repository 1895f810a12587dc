------------------------------ MODULE Hotplug -------------------------------
(***************************************************************************)
(* HDMI hotplug in dsDisplay.c: the watcher thread that polls the DRM      *)
(* connector, the one-shot threads that report the state to a client that  *)
(* has just registered, and dsDisplayInit, dsRegisterDisplayEventCallback  *)
(* and dsDisplayTerm, with the audio connect callback of dsAudio.c that    *)
(* the same threads call.                                                  *)
(*                                                                         *)
(* gHdmiWatcherMutex makes each locked section one step.  Reading the      *)
(* connector, calling the client and notifying audio are steps of their    *)
(* own: the code makes them without the mutex.  One thread at a time calls *)
(* the API, as the header says its functions are not thread safe: a        *)
(* callback that calls dsDisplayTerm does so while no other call runs (it  *)
(* would only be told that the module is not initialised).                 *)
(***************************************************************************)
EXTENDS Naturals

CONSTANTS
  Callbacks,       \* the display event callbacks clients register
  AudioCallbacks,  \* the audio connect callbacks clients register
  NULL,            \* no callback
  MaxReports,      \* bound: reporter threads over the whole behaviour
  Reentry,         \* a display event callback may call dsDisplayTerm
  FaultOps         \* operations that may fail: "query", "start", "spawn"

ASSUME ClientAssumption ==
  /\ NULL \notin Callbacks \cup AudioCallbacks
  /\ Callbacks \cap AudioCallbacks = {}
  /\ MaxReports \in Nat
  /\ Reentry \in BOOLEAN
ASSUME FaultAssumption == FaultOps \subseteq {"query", "start", "spawn"}

Reporters == 1 .. MaxReports
Listeners == Callbacks \cup AudioCallbacks

\* The threads that call the API: the client's own, a reporter, the watcher.
Client == 0
Watcher == MaxReports + 1
Callers == 0 .. MaxReports + 1

VARIABLES
  plug,         \* the cable is connected
  inited,       \* _bDisplayInited
  callback,     \* _halcallback
  audioCb,      \* _halhdmiaudioCB
  last,         \* gLastHdmiConnected
  running,      \* gHdmiWatcherRunning
  api,          \* where the API call stands
  caller,       \* the thread it runs in
  joinable,     \* gInitialStateReporterThread, 0 for none
  watcher,      \* where the watcher stands
  wLast, wSeen, \* its lastConnected, currentConnected
  wCall,        \* the client's function it is going to call
  reporter,     \* where each reporter stands
  rSeen,        \* its currentConnected
  rCall,        \* the client's function it is going to call
  told,         \* history: what each listener heard last in this session
  reentered,    \* history: a callback has called dsDisplayTerm
  disturbed     \* history: an event came too fast, or a report was not made

client == <<callback, audioCb, told>>
watch == <<watcher, wLast, wSeen, wCall>>
reports == <<reporter, rSeen, rCall>>
control == <<inited, running, api, caller, joinable, reentered>>
vars == <<plug, last, disturbed, client, watch, reports, control>>

WatcherPcs == {"none", "start", "loop", "compare", "notify", "audio",
               "audioCall", "done"}
ReporterPcs == {"none", "sleep", "query", "report", "audio", "audioCall",
                "done"}
ApiPcs == {"idle", "spawn", "joinReporter", "stopWatcher", "joinWatcher"}

TypeOK ==
  /\ plug \in BOOLEAN /\ last \in BOOLEAN /\ inited \in BOOLEAN
  /\ running \in BOOLEAN /\ disturbed \in BOOLEAN /\ reentered \in BOOLEAN
  /\ callback \in Callbacks \cup {NULL}
  /\ audioCb \in AudioCallbacks \cup {NULL}
  /\ api \in ApiPcs /\ caller \in Callers /\ joinable \in Reporters \cup {0}
  /\ watcher \in WatcherPcs /\ wLast \in BOOLEAN /\ wSeen \in BOOLEAN
  /\ wCall \in Listeners \cup {NULL}
  /\ reporter \in [Reporters -> ReporterPcs]
  /\ rSeen \in [Reporters -> BOOLEAN]
  /\ rCall \in [Reporters -> Listeners \cup {NULL}]
  /\ told \in [Listeners -> {"nothing", "connected", "disconnected"}]

Fails(op) == op \in FaultOps

Event(connected) == IF connected THEN "connected" ELSE "disconnected"

\* The call of a client's function, if there is one.
Tell(cb, connected) ==
  told' = IF cb = NULL THEN told ELSE [told EXCEPT ![cb] = Event(connected)]

Init ==
  /\ plug \in BOOLEAN
  /\ last = FALSE /\ inited = FALSE /\ running = FALSE
  /\ disturbed = FALSE /\ reentered = FALSE
  /\ callback = NULL /\ audioCb = NULL
  /\ api = "idle" /\ caller = Client /\ joinable = 0
  /\ watcher = "none" /\ wLast = FALSE /\ wSeen = FALSE
  /\ wCall = NULL
  /\ reporter = [r \in Reporters |-> "none"]
  /\ rSeen = [r \in Reporters |-> FALSE]
  /\ rCall = [r \in Reporters |-> NULL]
  /\ told = [l \in Listeners |-> "nothing"]

\* A reporter that has read the connector and has not told everybody yet.
InFlight(r) == reporter[r] \in {"report", "audio", "audioCall"}

\* The cable is plugged or unplugged.  An event is disturbing while a reporter
\* is telling the state it has read, or when the watcher has not recorded the
\* event before it: it will then see neither.
Replug ==
  /\ plug' = ~plug
  /\ disturbed' = (disturbed \/ last # plug \/ \E r \in Reporters : InFlight(r))
  /\ UNCHANGED <<last, client, watch, reports, control>>

(***************************************************************************)
(* The API                                                                 *)
(***************************************************************************)

\* The connector is read first; when udev or the thread cannot be had,
\* there is no watcher.
start_hdmi_watcher ==
  /\ last' = plug \/ (Fails("query") /\ last' = last)
  /\ \/ running' = TRUE /\ watcher' = "start"
     \/ Fails("start") /\ UNCHANGED <<running, watcher>>

\* The module runs with or without a watcher.  A bound: no session follows one
\* that ended in a callback, whose thread may still be running.
dsDisplayInit ==
  /\ api = "idle" /\ ~inited /\ ~reentered
  /\ start_hdmi_watcher
  /\ inited' = TRUE
  /\ told' = [l \in Listeners |-> "nothing"]
  /\ UNCHANGED <<plug, disturbed, callback, audioCb, wLast, wSeen, wCall, reports,
                 api, caller, joinable, reentered>>

\* dsRegisterDisplayEventCallback: the callback is set, then the reporter is
\* created; when that fails the callback stays.
Register(cb) ==
  /\ api = "idle" /\ inited
  /\ \E r \in Reporters : reporter[r] = "none"
  /\ callback' = cb
  /\ told' = [told EXCEPT ![cb] = "nothing"]
  /\ api' = "spawn"
  /\ UNCHANGED <<plug, last, disturbed, audioCb, watch, reports, inited,
                 running, caller, joinable, reentered>>

\* The next reporter; the handle of the one before it is overwritten.
Spawn(r) ==
  /\ api = "spawn"
  /\ reporter[r] = "none"
  /\ \A q \in Reporters : q < r => reporter[q] # "none"
  /\ \/ /\ reporter' = [reporter EXCEPT ![r] = "sleep"]
        /\ rCall' = [rCall EXCEPT ![r] = callback]
        /\ joinable' = r
        /\ UNCHANGED disturbed
     \/ /\ Fails("spawn")
        /\ disturbed' = TRUE
        /\ UNCHANGED <<reporter, rCall, joinable>>
  /\ api' = "idle"
  /\ UNCHANGED <<plug, last, client, watch, rSeen, inited, running, caller,
                 reentered>>

\* A thread is in the client's display event callback: it has called it and
\* not yet gone on to the audio callback.
InCallback(t) ==
  \/ t = Watcher /\ watcher = "audio" /\ wCall # NULL
  \/ t \in Reporters /\ reporter[t] = "audio" /\ rCall[t] # NULL

\* dsDisplayTerm clears the flag and the callback, then waits for the last
\* reporter and for the watcher.  The callbacks are called without the mutex so
\* that they may call it, too.
dsDisplayTerm(t) ==
  /\ api = "idle" /\ inited
  /\ t = Client \/ (Reentry /\ InCallback(t))
  /\ caller' = t
  /\ reentered' = (reentered \/ t # Client)
  /\ inited' = FALSE
  /\ callback' = NULL
  /\ api' = "joinReporter"
  /\ UNCHANGED <<plug, last, disturbed, audioCb, told, watch, reports, running,
                 joinable>>

\* Mutant: the reporter is detached and not waited for.
JoinedAtOnce == TRUE

\* Mutant: the wait is one that a thread can make for itself.
JoinedByAll == joinable # 0 => reporter[joinable] = "done"

\* pthread_join of the calling thread fails at once; the result is not looked at.
Joined == joinable \notin {0, caller} => reporter[joinable] = "done"

JoinReporter ==
  /\ api = "joinReporter"
  /\ Joined
  /\ joinable' = 0
  /\ api' = "stopWatcher"
  /\ UNCHANGED <<plug, last, disturbed, client, watch, reports, inited,
                 running, caller, reentered>>

\* stop_hdmi_watcher.
StopWatcher ==
  /\ api = "stopWatcher"
  /\ running' = FALSE
  /\ IF running
       THEN api' = "joinWatcher" /\ UNCHANGED caller
       ELSE api' = "idle" /\ caller' = Client
  /\ UNCHANGED <<plug, last, disturbed, client, watch, reports, inited,
                 joinable, reentered>>

\* The watcher itself is not joined and goes on when the callback returns.
JoinWatcher ==
  /\ api = "joinWatcher"
  /\ \/ caller = Watcher /\ UNCHANGED watcher
     \/ watcher = "done" /\ watcher' = "none"
  /\ api' = "idle"
  /\ caller' = Client
  /\ UNCHANGED <<plug, last, disturbed, client, wLast, wSeen, wCall, reports,
                 inited, running, joinable, reentered>>

dsAudioOutRegisterConnectCB(cb) ==
  /\ audioCb' = cb
  /\ told' = [told EXCEPT ![cb] = "nothing"]
  /\ UNCHANGED <<plug, last, disturbed, callback, watch, reports, control>>

dsAudioPortTerm ==
  /\ audioCb # NULL
  /\ audioCb' = NULL
  /\ UNCHANGED <<plug, last, disturbed, callback, told, watch, reports,
                 control>>

(***************************************************************************)
(* hdmi_watcher_thread                                                     *)
(***************************************************************************)

\* Mutant: the thread reads the connector afresh.
FirstSeenLive == plug
FirstSeen == last

WatcherStart ==
  /\ watcher = "start"
  /\ wLast' = FirstSeen
  /\ watcher' = "loop"
  /\ UNCHANGED <<plug, last, disturbed, client, wSeen, wCall, reports, control>>

WatcherStop ==
  /\ watcher = "loop" /\ ~running
  /\ watcher' = "done"
  /\ UNCHANGED <<plug, last, disturbed, client, wLast, wSeen, wCall, reports,
                 control>>

\* After a udev event or after 250 ms, whichever comes first: udev only makes
\* it sooner.  When the connector cannot be read (or does not differ, see
\* WatcherSame) the loop goes on.
WatcherQuery ==
  /\ watcher = "loop" /\ running
  /\ wSeen' = plug
  /\ watcher' = "compare"
  /\ UNCHANGED <<plug, last, disturbed, client, wLast, wCall, reports, control>>

\* Mutant: only a new connection is a change.
NoticedConnect == wSeen /\ ~wLast
Noticed == wSeen # wLast

WatcherSame ==
  /\ watcher = "compare" /\ ~Noticed
  /\ watcher' = "loop"
  /\ UNCHANGED <<plug, last, disturbed, client, wLast, wSeen, wCall, reports,
                 control>>

\* Under the mutex: the change is recorded and the callback is picked up.
WatcherChange ==
  /\ watcher = "compare" /\ Noticed
  /\ wLast' = wSeen
  /\ last' = wSeen
  /\ wCall' = callback
  /\ watcher' = "notify"
  /\ UNCHANGED <<plug, disturbed, client, wSeen, reports, control>>

WatcherNotify ==
  /\ watcher = "notify"
  /\ Tell(wCall, wSeen)
  /\ watcher' = "audio"
  /\ UNCHANGED <<plug, last, disturbed, callback, audioCb, wLast, wSeen, wCall,
                 reports, control>>

\* notify_audio_hotplug: get_hdmi_audio_cb, then the call.
WatcherAudio ==
  /\ watcher = "audio" /\ caller # Watcher
  /\ wCall' = audioCb
  /\ watcher' = "audioCall"
  /\ UNCHANGED <<plug, last, disturbed, client, wLast, wSeen, reports, control>>

WatcherAudioCall ==
  /\ watcher = "audioCall"
  /\ Tell(wCall, wSeen)
  /\ wCall' = NULL
  /\ watcher' = "loop"
  /\ UNCHANGED <<plug, last, disturbed, callback, audioCb, wLast, wSeen, reports,
                 control>>

(***************************************************************************)
(* report_initial_hdmi_state                                               *)
(***************************************************************************)

RGoto(r, pc) == reporter' = [reporter EXCEPT ![r] = pc]

\* The thread ends, and its locals with it.
REnd(r) ==
  /\ RGoto(r, "done")
  /\ rSeen' = [rSeen EXCEPT ![r] = FALSE]
  /\ rCall' = [rCall EXCEPT ![r] = NULL]

\* After the delay: the reporter gives up when the module has terminated.
ReporterGuard(r) ==
  /\ reporter[r] = "sleep"
  /\ IF inited THEN RGoto(r, "query") /\ UNCHANGED <<rSeen, rCall>> ELSE REnd(r)
  /\ UNCHANGED <<plug, last, disturbed, client, watch, control>>

ReporterQuery(r) ==
  /\ reporter[r] = "query"
  /\ \/ /\ rSeen' = [rSeen EXCEPT ![r] = plug]
        /\ RGoto(r, "report")
        /\ UNCHANGED <<rCall, disturbed>>
     \/ /\ Fails("query")
        /\ REnd(r)
        /\ disturbed' = TRUE
  /\ UNCHANGED <<plug, last, client, watch, control>>

ReporterReport(r) ==
  /\ reporter[r] = "report"
  /\ Tell(rCall[r], rSeen[r])
  /\ RGoto(r, "audio")
  /\ UNCHANGED <<plug, last, disturbed, callback, audioCb, watch, rSeen, rCall,
                 control>>

ReporterAudio(r) ==
  /\ reporter[r] = "audio" /\ caller # r
  /\ rCall' = [rCall EXCEPT ![r] = audioCb]
  /\ RGoto(r, "audioCall")
  /\ UNCHANGED <<plug, last, disturbed, client, watch, rSeen, control>>

ReporterAudioCall(r) ==
  /\ reporter[r] = "audioCall"
  /\ Tell(rCall[r], rSeen[r])
  /\ REnd(r)
  /\ UNCHANGED <<plug, last, disturbed, callback, audioCb, watch, control>>

ReporterStep(r) ==
  \/ ReporterGuard(r) \/ ReporterQuery(r) \/ ReporterReport(r)
  \/ ReporterAudio(r) \/ ReporterAudioCall(r)
WatcherStep ==
  \/ WatcherStart \/ WatcherStop \/ WatcherQuery \/ WatcherSame
  \/ WatcherChange \/ WatcherNotify \/ WatcherAudio \/ WatcherAudioCall
ApiStep ==
  \/ \E r \in Reporters : Spawn(r)
  \/ JoinReporter \/ StopWatcher \/ JoinWatcher

Next ==
  \/ Replug
  \/ dsDisplayInit \/ \E t \in Callers : dsDisplayTerm(t)
  \/ \E cb \in Callbacks : Register(cb)
  \/ \E cb \in AudioCallbacks : dsAudioOutRegisterConnectCB(cb)
  \/ dsAudioPortTerm
  \/ ApiStep \/ WatcherStep \/ \E r \in Reporters : ReporterStep(r)

Spec == Init /\ [][Next]_vars

\* The threads run and the client's callbacks return; a call that has begun
\* goes on.  A failing query is retried at the next poll, so that the step
\* that reads the connector is always taken in the end.
Fairness ==
  /\ WF_vars(WatcherStep)
  /\ \A r \in Reporters : WF_vars(ReporterStep(r))
  /\ WF_vars(ApiStep)

FairSpec == Spec /\ Fairness

(***************************************************************************)
(* Properties                                                              *)
(***************************************************************************)

Terminated == ~inited /\ api = "idle"

\* dsDisplayTerm: once it has returned, the watcher has ended and so has the
\* reporter created last; neither calls a client any more.  A thread that called
\* dsDisplayTerm itself cannot be waited for.
TermJoins ==
  Terminated /\ ~reentered =>
    /\ watcher = "none"
    /\ \A r \in Reporters :
         InFlight(r) => \E q \in Reporters : q > r /\ reporter[q] # "none"

\* "prevent callbacks from firing after display module termination": no
\* thread is about to call a client once dsDisplayTerm has returned.
NoCallAfterTerm == Terminated => \A r \in Reporters : ~InFlight(r)

\* The watcher has noticed the cable as it is and has nothing left to tell,
\* and no reporter is at work.
Settled ==
  /\ inited /\ api = "idle"
  /\ watcher \in {"loop", "compare"} /\ wLast = plug
  /\ watcher = "compare" => wSeen = plug
  /\ \A r \in Reporters : reporter[r] \in {"none", "done"}

\* Whatever the order of registration, hotplug and threads, the registered
\* client ends up knowing the true state, provided no cable event overtook a
\* reporter or came before the watcher had recorded the one before it; an
\* audio client that heard anything at all knows it as well.
SettledTruth ==
  Settled /\ ~disturbed =>
    /\ callback # NULL => told[callback] = Event(plug)
    /\ audioCb # NULL => told[audioCb] \in {"nothing", Event(plug)}

\* The watcher catches up with the cable, however often it changes.
WatcherTracks ==
  \A c \in BOOLEAN :
    running /\ plug = c ~> last = c \/ plug # c \/ ~running

\* A call that waits for other threads returns: neither join waits for a
\* thread that waits for the caller.
ApiReturns == api # "idle" ~> api = "idle"
=============================================================================
