---------------------------- MODULE Registration ----------------------------
(***************************************************************************)
(* Registering a console: the wizard (chiaki-ui/src/pages/                 *)
(* regist_wizard.rs), the threads of an attempt (regist_host of            *)
(* backend/sessions.rs and chiaki-core/src/regist.rs), and the settings    *)
(* that an attempt, the wizard's user and a stream from PSN change.  A     *)
(* wizard that is closed or opened again leaves its attempt running, so    *)
(* that several may run.  Or the command line (chiaki-cli/src/regist.rs),  *)
(* which makes one attempt that Ctrl-C stops, and saves nothing.           *)
(***************************************************************************)
EXTENDS Registry

CONSTANT Attempts  \* bound: of the wizard

VARIABLES
  flow,    \* of each attempt: pc, when stop() came, and the result that is shown
  wizard   \* page, and the attempt whose handle it has or 0; "cli" is the command line
registrationVars == <<flow, wizard>>

Cli   == 0
Flows == 0 .. Attempts

Waits == {"search", "pause", "connect", "send", "answer"}

\* stop: "now" until the wait it came in is over.
FlowTypeOK ==
  /\ RegistryTypeOK
  /\ flow \in [Flows -> [pc : Waits \cup {"none", "success", "stored", "failed", "canceled", "told", "over"},
                         stop : {"never", "now", "before"},
                         shown : {"nothing", "ok", "error"}]]
  /\ wizard \in [page : {"closed", "target", "auth", "result", "cli"}, handle : Flows]

FlowInit ==
  /\ RegistryInit
  /\ flow = [a \in Flows |-> [pc |-> "none", stop |-> "never", shown |-> "nothing"]]
  /\ wizard \in [page : {"closed", "cli"}, handle : {0}]

At(a, pc) == flow[a].pc = pc
Goto(a, pc) == flow' = [flow EXCEPT ![a].pc = pc]
-----------------------------------------------------------------------------
(* regist_flow *)

Following == [search |-> "pause", pause |-> "connect", connect |-> "send",
              send |-> "answer", answer |-> "success"]

\* What is waited for came: an answer to the search, the connection, room to send, a
\* response that is complete and right; or the pause is over. A stop is not missed twice.
Passes(a) ==
  /\ flow[a].pc \in Waits /\ flow[a].stop # "before"
  /\ flow' = [flow EXCEPT ![a].pc = Following[@],
                          ![a].stop = IF @ = "now" THEN "before" ELSE @]
  /\ UNCHANGED <<wizard, registryVars>>

PauseOver(a) == At(a, "pause") /\ Passes(a)

\* A plausible bug: a wait that ends only by what it waits for, or a stop.
EndsIfStopped(a) ==
  /\ flow[a].pc \in Waits /\ flow[a].stop # "never" /\ Goto(a, "canceled")
  /\ UNCHANGED <<wizard, registryVars>>

\* Every wait looks at the stop pipe when it begins, and again and again while it lasts;
\* or its time is up, the network fails, or what came is wrong.
Ends(a) ==
  /\ flow[a].pc \in Waits
  /\ \/ flow[a].stop # "never" /\ Goto(a, "canceled")
     \/ flow[a].stop # "before" /\ ~At(a, "pause") /\ Goto(a, "failed")
  /\ UNCHANGED <<wizard, registryVars>>
-----------------------------------------------------------------------------
(* The callback of regist_host *)

\* The registration is saved, or not.
Store(a) ==
  /\ At(a, "success") /\ a # Cli
  /\ \E c \in Consoles : \/ AddSaved(c, a) /\ Goto(a, "stored")
                         \/ AddUnsaved(c, a) /\ Goto(a, "failed")
  /\ UNCHANGED wizard

\* finish; the command line prints a success instead of saving it.
Tell(a) ==
  /\ flow[a].pc \in {"stored", "failed", "canceled"} \cup (IF a = Cli THEN {"success"} ELSE {})
  /\ flow' = [flow EXCEPT ![a].pc = "told",
                 ![a].shown = IF flow[a].pc \in {"failed", "canceled"} THEN "error" ELSE "ok"]
  /\ UNCHANGED <<wizard, registryVars>>

\* The thread that started the attempt has received the event, and joined it.
JoinThread(a) ==
  /\ At(a, "told") /\ Goto(a, "over")
  /\ UNCHANGED <<wizard, registryVars>>
-----------------------------------------------------------------------------
(* The wizard *)

\* handle.running
Running(a) == ~At(a, "none") /\ flow[a].shown = "nothing"

\* open, from any page: the handle is dropped.
Open ==
  /\ wizard.page # "cli" /\ wizard' = [page |-> "target", handle |-> 0]
  /\ UNCHANGED <<flow, registryVars>>

Forward ==
  /\ wizard.page = "target" /\ wizard' = [wizard EXCEPT !.page = "auth"]
  /\ UNCHANGED <<flow, registryVars>>

\* The attempts are numbered as they are made. Without a thread it fails at once.
Begin(a) ==
  /\ At(a, "none") /\ \A b \in 1 .. a - 1 : ~At(b, "none")
  /\ \/ Goto(a, "search")
     \/ flow' = [flow EXCEPT ![a].pc = "over", ![a].shown = "error"]
  /\ UNCHANGED registryVars

\* The button is dead while the attempt of the handle runs.
RegisterButton ==
  /\ wizard.page = "auth" /\ ~Running(wizard.handle)
  /\ \E a \in Flows \ {Cli} : Begin(a) /\ wizard' = [page |-> "result", handle |-> a]

Back ==
  /\ \/ wizard.page = "result" /\ wizard' = [wizard EXCEPT !.page = "auth"]
     \/ wizard.page = "auth" /\ wizard' = [wizard EXCEPT !.page = "target"]
  /\ UNCHANGED <<flow, registryVars>>

\* Cancel of the first page, and the button of the last one, which does not wait.
Close ==
  /\ wizard.page \in {"target", "result"} /\ wizard' = [page |-> "closed", handle |-> 0]
  /\ UNCHANGED <<flow, registryVars>>
-----------------------------------------------------------------------------
\* The command line.
RunCli ==
  /\ wizard.page = "cli" /\ Begin(Cli) /\ UNCHANGED wizard

\* Regist::stop, by Ctrl-C.
StopCli ==
  /\ flow[Cli].stop = "never" /\ flow[Cli].pc \in Waits \cup {"success", "failed"}
  /\ flow' = [flow EXCEPT ![Cli].stop = "now"]
  /\ UNCHANGED <<wizard, registryVars>>

\* The settings page, and a stream from PSN that registers its console
\* (stream/state.rs:863).
Elsewhere ==
  /\ wizard.page # "cli"
  /\ User \/ \E c \in Consoles : AddSaved(c, Attempts + 1) \/ AddUnsaved(c, Attempts + 1)
  /\ UNCHANGED registrationVars

\* The program is left, with its threads.
Again ==
  /\ wizard.page # "cli" /\ Restart
  /\ wizard' = [page |-> "closed", handle |-> 0]
  /\ flow' = [a \in Flows |-> IF At(a, "none") THEN flow[a] ELSE [flow[a] EXCEPT !.pc = "over"]]

Thread(a) == Ends(a) \/ Store(a) \/ Tell(a) \/ JoinThread(a)

FlowNext ==
  \/ \E a \in Flows : Passes(a) \/ Thread(a)
  \/ Open \/ Forward \/ RegisterButton \/ Back \/ Close
  \/ RunCli \/ StopCli \/ Elsewhere \/ Again

flowVars == <<registryVars, registrationVars>>

\* Every wait has a time limit, the pause is over after it, and the threads go on.
FlowSpec ==
  /\ FlowInit /\ [][FlowNext]_flowVars
  /\ \A a \in Flows : WF_flowVars(Thread(a) \/ PauseOver(a))
-----------------------------------------------------------------------------
\* An attempt ends, its threads are joined and its result is shown, whatever the console
\* says or does not say and wherever a stop comes; also one that the wizard has left.
AttemptsEnd == (\E a \in Flows : ~At(a, "none") /\ ~At(a, "over"))
                 ~> \A a \in Flows : flow[a].pc \in {"none", "over"}
=============================================================================
