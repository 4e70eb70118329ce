------------------------------ MODULE DapDebug ------------------------------
(***************************************************************************)
(* The debugger seam of spikes/spike-j: the cart thread runs Lua under the *)
(* master hook (lib/master_hook.c), the DAP thread serves one client       *)
(* (host/dap_server.c), and the host harness drives the frames             *)
(* (host/dap_lua_host.c).  The two threads share g_dap under its mutex and *)
(* the step/pause fields of fc_master_hook_cfg, which the hook reads       *)
(* without it.                                                             *)
(*                                                                         *)
(* Each action of a thread is one critical section, one send or one hook   *)
(* event.  JSON text is left out: a message is its command and what the    *)
(* handler reads of it.  A line number stands for a source line; the Lua   *)
(* program is any sequence of line, call, return and count events.  The    *)
(* client is external.                                                     *)
(***************************************************************************)
EXTENDS Naturals, Sequences, FiniteSets

CONSTANTS Lines,          \* lines a client may ask for; 0 never binds
          MaxBps,         \* MAX_BREAKPOINTS
          MaxDepth,       \* deepest Lua call stack of the cart
          Frames,         \* lua_pcalls of the harness (21 in the code)
          MaxEvents,      \* hook events per call
          Budget,         \* budget_ns, in hook events
          MaxRequests,    \* requests the client sends in all
          Commands,       \* requests the client uses
          Pipelines       \* TRUE: it does not wait for responses and events

\* initialize, launch, threads, scopes and unknown commands only answer.
Stateless == {"initialize", "launch", "threads", "scopes"}
Handlers == Stateless \cup
  {"configurationDone", "setBreakpoints", "stackTrace", "continue", "next",
   "stepIn", "stepOut", "pause", "disconnect", "hot_reload"}

ASSUME DapAssumption ==
  /\ {MaxBps, MaxDepth, Frames, MaxEvents, Budget, MaxRequests} \subseteq Nat
  /\ Lines \subseteq Nat /\ IsFiniteSet(Lines) /\ Frames > 0 /\ MaxDepth > 0
  /\ Commands \subseteq Handlers /\ Pipelines \in BOOLEAN

Req(c) == [cmd |-> c, lines |-> {}]
SetBps(S) == [cmd |-> "setBreakpoints", lines |-> S]
StepMode == [next |-> "over", stepIn |-> "in", stepOut |-> "out"]
NoReq == Req("none")

VARIABLES
  cpc,        \* cart thread: "waiting" (--wait), "starting", "idle", "lua", ...
  depth,      \* its Lua call depth
  budgetLeft, \* events left in this call (bound)
  calls,      \* calls the harness still has to make
  inReturn,   \* the hook that pauses is a return hook
  cartL,      \* the lua_State it runs
  wall,       \* time since rearm
  work,       \* history: the part of `wall` spent running
  cause,      \* history: why the last pause was entered
  curL,       \* s_L: 0 between lua_close and luaL_newstate
  built,      \* lua_States made so far
  closed,     \* history: the ones lua_close was called on
  loadedOK,   \* history: the chunk of the last reload ran
  pausedL,    \* g_dap.paused_L, 0 for NULL
  contPending,
  attached,   \* client_fd >= 0
  running,
  configured, \* configuration_done
  bps,        \* verified lines in g_dap.bps
  stepMode, baseDepth, pendingPause,       \* fc_master_hook_cfg
  spc,        \* DAP thread
  req,        \* the request it handles
  walkL,      \* the lua_State a stack walk reads
  toServer, toClient,                      \* the socket
  link,       \* client: "off", "on" or "closed"
  view,       \* client: "running", "stopped" or "resuming"
  waiting,    \* client: requests without a response
  sent,       \* requests sent (bound)
  asked,      \* history: the step asked for, and the depth it was asked at
  acked       \* history: lines the client was told are verified

cartVars == <<cpc, depth, budgetLeft, calls, inReturn, cartL, wall, work, cause>>
cfgVars == <<stepMode, baseDepth, pendingPause>>
srvVars == <<spc, req, walkL>>
cliVars == <<link, view, waiting, sent, asked, acked>>
luaVars == <<curL, built, closed, loadedOK>>
vars == <<cartVars, luaVars, pausedL, contPending, attached, running, configured,
          bps, cfgVars, srvVars, toServer, toClient, cliVars>>

Init ==
  /\ cpc \in {"waiting", "starting"} /\ depth = 0 /\ budgetLeft = 0 /\ calls = Frames
  /\ inReturn = FALSE /\ cartL = 0 /\ wall = 0 /\ work = 0 /\ cause = "none"
  /\ curL = 0 /\ built = 0 /\ closed = {} /\ loadedOK = FALSE
  /\ pausedL = 0 /\ contPending = FALSE /\ attached = FALSE
  /\ running = TRUE /\ configured = FALSE /\ bps = {}
  /\ stepMode = "none" /\ baseDepth = 0 /\ pendingPause = FALSE
  /\ spc = "accept" /\ req = NoReq /\ walkL = 0
  /\ toServer = <<>> /\ toClient = <<>>
  /\ link = "off" /\ view = "running" /\ waiting = 0 /\ sent = 0
  /\ asked = [mode |-> "none", from |-> 0] /\ acked = {}

\* send_msg: nothing is sent without a client.
Sent(msg) == toClient' = IF attached THEN Append(toClient, msg) ELSE toClient

------------------------------------------------------------------------------
(* The cart thread.                                                        *)

\* luaL_newstate
NewState == curL' = built + 1 /\ built' = built + 1

\* With --wait not before configurationDone.  build_state's chunk runs under
\* the hook before the first rearm, with budget_tic_start_ns still 0.
StartCart ==
  /\ cpc = "starting" \/ (cpc = "waiting" /\ configured)
  /\ cpc' = "lua" /\ depth' = 1 /\ budgetLeft' = MaxEvents /\ wall' = Budget + 1
  /\ NewState /\ cartL' = built + 1
  /\ UNCHANGED <<calls, inReturn, work, cause, closed, loadedOK, pausedL, contPending,
                 attached, running, configured, bps, cfgVars, srvVars, toServer,
                 toClient, cliVars>>

\* No rearm_then_call yet: the chunk is what runs.
InChunk == calls = Frames

\* rearm_then_call: s_L is read anew for every call.
CallFn ==
  /\ cpc = "idle" /\ calls > 0
  /\ calls' = calls - 1
  /\ cartL' = curL
  /\ cpc' = IF curL = 0 THEN "crashed" ELSE "lua"
  /\ depth' = 1 /\ budgetLeft' = MaxEvents /\ wall' = 0 /\ work' = 0
  /\ UNCHANGED <<inReturn, cause>>
  /\ UNCHANGED <<luaVars, pausedL, contPending, attached, running, configured, bps,
                 cfgVars, srvVars, toServer, toClient, cliVars>>

\* fc_consolelua_dap_shutdown after the last call: running = 0, the sockets
\* are shut down, the DAP thread is joined.
Shutdown ==
  /\ cpc = "idle" /\ calls = 0
  /\ cpc' = "joining" /\ running' = FALSE
  /\ UNCHANGED <<depth, budgetLeft, calls, inReturn, cartL, wall, work, cause>>
  /\ UNCHANGED <<luaVars, pausedL, contPending, attached, configured, bps, cfgVars,
                 srvVars, toServer, toClient, cliVars>>

Join ==
  /\ cpc = "joining" /\ spc = "ended"
  /\ cpc' = "exit"
  /\ UNCHANGED <<depth, budgetLeft, calls, inReturn, cartL, wall, work, cause>>
  /\ UNCHANGED <<luaVars, pausedL, contPending, attached, running, configured, bps,
                 cfgVars, srvVars, toServer, toClient, cliVars>>

\* dap_dispatch's step rule; only on line events.
StepDueAnyDepth(d) == stepMode # "none"                           \* mutant
StepDue(d) == \/ stepMode = "in"
              \/ stepMode = "over" /\ d <= baseDepth
              \/ stepMode = "out"  /\ d < baseDepth

\* fc_dap_should_break, of a verified entry
ShouldBreak(l) == attached /\ l \in bps /\ l > 0

InLua == /\ cpc = "lua" /\ budgetLeft > 0
         /\ budgetLeft' = budgetLeft - 1
         /\ wall' = wall + 1 /\ work' = work + 1
         /\ UNCHANGED <<calls, cartL>>
         /\ UNCHANGED <<luaVars, pausedL, contPending, attached, running, configured,
                        bps, baseDepth, pendingPause, srvVars, toServer, toClient,
                        cliVars>>

HookLine(l) ==
  /\ InLua /\ l > 0
  /\ UNCHANGED <<depth, inReturn>>
  /\ \/ /\ pendingPause
        /\ cpc' = "enter" /\ cause' = "pause" /\ UNCHANGED stepMode
     \/ /\ ~pendingPause /\ StepDue(depth)
        /\ cpc' = "enter" /\ cause' = "step" /\ stepMode' = "none"
     \/ /\ ~pendingPause /\ ~StepDue(depth) /\ ShouldBreak(l)
        /\ cpc' = "enter" /\ cause' = "breakpoint" /\ UNCHANGED stepMode
     \/ /\ ~pendingPause /\ ~StepDue(depth) /\ ~ShouldBreak(l)
        /\ UNCHANGED <<cpc, cause, stepMode>>

HookCall ==
  /\ InLua /\ depth < MaxDepth
  /\ depth' = depth + 1
  /\ UNCHANGED <<inReturn, stepMode>>
  /\ IF pendingPause THEN cpc' = "enter" /\ cause' = "pause"
                     ELSE UNCHANGED <<cpc, cause>>

\* The hook runs before the function leaves the stack.
HookReturn ==
  /\ InLua
  /\ UNCHANGED stepMode
  /\ IF pendingPause
     THEN cpc' = "enter" /\ cause' = "pause" /\ inReturn' = TRUE /\ UNCHANGED depth
     ELSE /\ depth' = depth - 1
          /\ cpc' = IF depth = 1 THEN "idle" ELSE "lua"
          /\ UNCHANGED <<inReturn, cause>>

\* budget_check on a count event; an error unwinds the whole lua_pcall, and
\* in the chunk it makes main return.
HookCount ==
  /\ InLua
  /\ UNCHANGED <<inReturn, stepMode>>
  /\ IF wall > Budget THEN /\ cause' = "budget" /\ depth' = 0
                             /\ cpc' = IF InChunk THEN "exit" ELSE "idle"
     ELSE IF pendingPause THEN cpc' = "enter" /\ cause' = "pause" /\ UNCHANGED depth
     ELSE UNCHANGED <<cpc, cause, depth>>

\* The Lua function runs to its end without further hook events (bound).
EndOfCall ==
  /\ cpc = "lua" /\ budgetLeft = 0
  /\ cpc' = "idle" /\ depth' = 0
  /\ UNCHANGED <<budgetLeft, calls, inReturn, cartL, wall, work, cause>>
  /\ UNCHANGED <<luaVars, pausedL, contPending, attached, running, configured, bps,
                 cfgVars, srvVars, toServer, toClient, cliVars>>

PauseStep(from, to) ==
  /\ cpc = from /\ cpc' = to
  /\ UNCHANGED <<budgetLeft, calls, cartL, work, cause>>
  /\ UNCHANGED <<luaVars, attached, running, configured, bps, cfgVars, srvVars,
                 toServer, cliVars>>

\* fc_dap_pause_loop: first critical section, "stopped", polling, second
\* critical section, "continued".
EnterPause ==
  /\ PauseStep("enter", "stopped")
  /\ pausedL' = cartL
  /\ contPending' = FALSE
  /\ UNCHANGED <<toClient, wall, depth, inReturn>>

SendStoppedAtBreakpoints ==                   \* mutant: steps stop silently
  /\ PauseStep("stopped", "poll")
  /\ IF cause = "step" THEN UNCHANGED toClient ELSE Sent(Req("stopped"))
  /\ UNCHANGED <<pausedL, contPending, wall, depth, inReturn>>
SendStopped ==
  /\ PauseStep("stopped", "poll")
  /\ Sent(Req("stopped"))
  /\ UNCHANGED <<pausedL, contPending, wall, depth, inReturn>>

PollContinueTimesOut ==                       \* mutant: waits only so long
  /\ PauseStep("poll", "leave")
  /\ wall' = Budget + 1
  /\ UNCHANGED <<pausedL, contPending, toClient, depth, inReturn>>
PollContinue ==
  /\ contPending \/ ~running
  /\ PauseStep("poll", "leave")
  /\ wall' = Budget + 1                      \* a human looked at the stop
  /\ UNCHANGED <<pausedL, contPending, toClient, depth, inReturn>>

LeavePause ==
  /\ PauseStep("leave", "continued")
  /\ pausedL' = 0
  /\ contPending' = FALSE
  /\ UNCHANGED <<toClient, wall, depth, inReturn>>

SendContinued ==
  /\ PauseStep("continued", IF inReturn /\ depth = 1 THEN "idle" ELSE "lua")
  /\ Sent(Req("continued"))
  /\ depth' = IF inReturn THEN depth - 1 ELSE depth
  /\ inReturn' = FALSE
  /\ UNCHANGED <<pausedL, contPending, wall>>

\* Running a closed lua_State: one of the things undefined behaviour may do.
UseAfterClose ==
  /\ cpc \in {"lua", "continued"} /\ cartL \in closed
  /\ cpc' = "crashed"
  /\ UNCHANGED <<depth, budgetLeft, calls, inReturn, cartL, wall, work, cause>>
  /\ UNCHANGED <<luaVars, pausedL, contPending, attached, running, configured, bps,
                 cfgVars, srvVars, toServer, toClient, cliVars>>

CartThread ==
  \/ StartCart \/ CallFn \/ Shutdown \/ Join \/ HookCall \/ HookReturn \/ HookCount
  \/ \E l \in Lines : HookLine(l)
  \/ EndOfCall \/ EnterPause \/ SendStopped \/ PollContinue \/ LeavePause
  \/ SendContinued \/ UseAfterClose

------------------------------------------------------------------------------
(* The DAP thread: accept, read, dispatch to a handler, reply.             *)

SrvStep(from, to) ==
  /\ spc = from /\ spc' = to
  /\ UNCHANGED <<cartVars, running, cliVars>>

Accept ==
  /\ link = "on"
  /\ running
  /\ SrvStep("accept", "read")
  /\ attached' = TRUE
  /\ UNCHANGED <<req, walkL, luaVars, pausedL, contPending, configured, bps, cfgVars,
                 toServer, toClient>>

ReadMsg ==
  /\ toServer # <<>>
  /\ running
  /\ SrvStep("read", Head(toServer).cmd)
  /\ req' = Head(toServer)
  /\ toServer' = Tail(toServer)
  /\ UNCHANGED <<walkL, luaVars, pausedL, contPending, attached, configured, bps,
                 cfgVars, toClient>>

HandleStateless ==
  /\ spc \in Stateless
  /\ SrvStep(spc, "reply")
  /\ UNCHANGED <<req, walkL, luaVars, pausedL, contPending, attached, configured,
                 bps, cfgVars, toServer, toClient>>

HandleConfigurationDone ==
  /\ SrvStep("configurationDone", "reply")
  /\ configured' = TRUE
  /\ UNCHANGED <<req, walkL, luaVars, pausedL, contPending, attached, bps, cfgVars,
                 toServer, toClient>>

\* The first MaxBps of the request's lines; a request lists its lines in
\* ascending order.
BpsReplaced(S) == {l \in S : Cardinality({k \in S : k <= l}) <= MaxBps}

\* The table is replaced (there is one source).
HandleSetBreakpoints ==
  /\ SrvStep("setBreakpoints", "reply")
  /\ bps' = BpsReplaced(req.lines)
  /\ UNCHANGED <<req, walkL, luaVars, pausedL, contPending, attached, configured,
                 cfgVars, toServer, toClient>>

\* stackTrace and variables: paused_L is read under the mutex, walked after.
HandleStackTrace ==
  /\ SrvStep("stackTrace", IF pausedL = 0 THEN "reply" ELSE "walk")
  /\ walkL' = pausedL
  /\ UNCHANGED <<req, luaVars, pausedL, contPending, attached, configured, bps,
                 cfgVars, toServer, toClient>>

EndWalk ==
  /\ SrvStep("walk", "reply")
  /\ walkL' = 0
  /\ UNCHANGED <<req, luaVars, pausedL, contPending, attached, configured, bps,
                 cfgVars, toServer, toClient>>

HandleContinue ==
  /\ SrvStep("continue", "reply")
  /\ contPending' = TRUE
  /\ stepMode' = "none" /\ pendingPause' = FALSE
  /\ UNCHANGED <<req, walkL, luaVars, pausedL, attached, configured, bps, baseDepth,
                 toServer, toClient>>

BaseDepthCaller == IF pausedL = 0 THEN 0 ELSE depth + 1           \* mutant
BaseDepthNow == IF pausedL = 0 THEN 0 ELSE depth
HandleStepStays(m) ==                         \* mutant: no continue
  /\ SrvStep(m, "reply")
  /\ stepMode' = StepMode[m] /\ baseDepth' = BaseDepthNow /\ pendingPause' = FALSE
  /\ UNCHANGED <<req, walkL, luaVars, pausedL, contPending, attached, configured, bps, toServer,
                 toClient>>
HandleStep(m) ==
  /\ SrvStep(m, "reply")
  /\ contPending' = TRUE
  /\ stepMode' = StepMode[m] /\ baseDepth' = BaseDepthNow /\ pendingPause' = FALSE
  /\ UNCHANGED <<req, walkL, luaVars, pausedL, attached, configured, bps, toServer,
                 toClient>>

HandlePause ==
  /\ SrvStep("pause", "reply")
  /\ pendingPause' = TRUE
  /\ UNCHANGED <<req, walkL, luaVars, pausedL, contPending, attached, configured, bps,
                 stepMode, baseDepth, toServer, toClient>>

\* disconnect and terminate: the response goes out first.
HandleDisconnect ==
  /\ SrvStep("disconnect", "post")
  /\ Sent(req)
  /\ UNCHANGED <<req, walkL, luaVars, pausedL, contPending, attached, configured, bps,
                 cfgVars, toServer>>

PostDisconnect ==
  /\ SrvStep("post", "read")
  /\ contPending' = TRUE
  /\ stepMode' = "none" /\ pendingPause' = FALSE
  /\ UNCHANGED <<req, walkL, luaVars, pausedL, attached, configured, bps, baseDepth,
                 toServer, toClient>>

\* No source, no bytecode or no memory for it: a failure, and nothing else.
ReloadRefused ==
  /\ SrvStep("hot_reload", "reply")
  /\ UNCHANGED <<req, walkL, luaVars, pausedL, contPending, attached, configured,
                 bps, cfgVars, toServer, toClient>>

\* hot_reload runs fc_consolelua_synthetic_reload here, on the DAP thread.
ReloadClose ==
  /\ SrvStep("hot_reload", "build")
  /\ curL' = 0 /\ closed' = closed \cup ({curL} \ {0}) /\ loadedOK' = FALSE
  /\ UNCHANGED <<req, walkL, built, pausedL, contPending, attached, configured, bps,
                 cfgVars, toServer, toClient>>

\* No memory for the copy of the bytecode, or for the lua_State.
ReloadOutOfMemory ==
  /\ SrvStep("build", "loaded")
  /\ UNCHANGED <<req, walkL, luaVars, pausedL, contPending, attached, configured,
                 bps, cfgVars, toServer, toClient>>

\* build_state: the chunk loads and runs, or it does not; nobody looks.
ReloadBuild ==
  /\ SrvStep("build", "loaded")
  /\ NewState
  /\ loadedOK' \in BOOLEAN
  /\ UNCHANGED <<req, walkL, closed, pausedL, contPending, attached, configured, bps,
                 cfgVars, toServer, toClient>>

\* The hook is installed before the chunk runs: an event of the chunk that
\* stops parks the DAP thread in the pause loop, and there the continue
\* posted for the cart thread is erased.  A step is due at the chunk's first
\* line, at depth 1, or not at all; a breakpoint may be on any of its lines.
ChunkStops ==
  \/ pendingPause /\ UNCHANGED stepMode
  \/ ~pendingPause /\ StepDue(1) /\ stepMode' = "none"
  \/ /\ ~pendingPause /\ ~StepDue(1) /\ UNCHANGED stepMode
     /\ \E l \in Lines : ShouldBreak(l)
ReloadPauses ==
  /\ SrvStep("build", "selfpaused")
  /\ ChunkStops
  /\ NewState
  /\ pausedL' = built + 1 /\ contPending' = FALSE
  /\ Sent(Req("stopped"))
  /\ UNCHANGED <<req, walkL, closed, loadedOK, attached, configured, bps, baseDepth,
                 pendingPause, toServer>>

SelfPausedStays == spc = "selfpaused" /\ UNCHANGED vars \* mutant: running not read
\* Nobody but this thread sets continue_pending; only shutdown ends the loop.
SelfPausedEnds ==
  /\ ~running
  /\ SrvStep("selfpaused", "loaded")
  /\ pausedL' = 0 /\ contPending' = FALSE
  /\ loadedOK' \in BOOLEAN
  /\ Sent(Req("continued"))
  /\ UNCHANGED <<req, walkL, curL, built, closed, attached, configured, bps, cfgVars,
                 toServer>>

\* The response says success, then loadedSource.
Loaded ==
  /\ SrvStep("loaded", "read")
  /\ toClient' = IF attached THEN toClient \o <<req, Req("loadedSource")>> ELSE toClient
  /\ UNCHANGED <<req, walkL, luaVars, pausedL, contPending, attached, configured, bps,
                 cfgVars, toServer>>

\* send_response; setBreakpoints tells which lines are verified.
ReplyVerifiesAll ==                           \* mutant: lines not looked up
  /\ SrvStep("reply", "read")
  /\ Sent(req)
  /\ UNCHANGED <<req, walkL, luaVars, pausedL, contPending, attached, configured,
                 bps, cfgVars, toServer>>
Reply ==
  /\ SrvStep("reply", "read")
  /\ Sent([req EXCEPT !.lines = @ \cap (bps \ {0})])
  /\ UNCHANGED <<req, walkL, luaVars, pausedL, contPending, attached, configured, bps,
                 cfgVars, toServer>>

\* End of file on the socket: the fd is closed, the cart is not told.
CloseClient ==
  /\ (link = "closed" /\ toServer = <<>>) \/ ~running
  /\ SrvStep("read", "accept")
  /\ attached' = FALSE
  /\ UNCHANGED <<req, walkL, luaVars, pausedL, contPending, configured, bps, cfgVars,
                 toServer, toClient>>

ThreadEnds ==
  /\ ~running
  /\ SrvStep("accept", "ended")
  /\ UNCHANGED <<req, walkL, luaVars, pausedL, contPending, attached, configured,
                 bps, cfgVars, toServer, toClient>>

DapThread ==
  \/ Accept \/ ReadMsg \/ HandleConfigurationDone \/ HandleSetBreakpoints
  \/ HandleStateless \/ HandleStackTrace \/ EndWalk \/ HandleContinue
  \/ \E m \in DOMAIN StepMode : HandleStep(m)
  \/ HandlePause \/ HandleDisconnect \/ PostDisconnect
  \/ ReloadRefused \/ ReloadClose
  \/ ReloadOutOfMemory \/ ReloadBuild \/ ReloadPauses \/ SelfPausedEnds \/ Loaded
  \/ Reply \/ CloseClient \/ ThreadEnds

------------------------------------------------------------------------------
(* The client (external): the order of host/dap_test.js.  Unless it        *)
(* pipelines, it has one request open at a time, inspects and resumes only *)
(* a cart it was told has stopped, and pauses only one it thinks runs.     *)

othersUnchanged == UNCHANGED <<cartVars, luaVars, pausedL, contPending, attached,
                               running, configured, bps, cfgVars, srvVars>>

Connect == /\ link = "off" /\ link' = "on"
           /\ UNCHANGED <<view, waiting, sent, asked, acked, toServer, toClient>>
           /\ othersUnchanged

Resumes == {"continue"} \cup DOMAIN StepMode

Allowed(r) ==
  \/ Pipelines
  \/ /\ waiting = 0
     /\ r.cmd \in Resumes \cup {"stackTrace"} => view = "stopped"
     /\ r.cmd = "pause" => view = "running"

SendRequest(r) ==
  /\ link = "on" /\ sent < MaxRequests
  /\ Allowed(r)
  /\ sent' = sent + 1
  /\ waiting' = waiting + 1
  /\ toServer' = Append(toServer, r)
  /\ view' = IF r.cmd \in Resumes THEN "resuming" ELSE view
  /\ asked' = IF r.cmd \in DOMAIN StepMode
              THEN [mode |-> StepMode[r.cmd], from |-> depth] ELSE asked
  /\ acked' = IF r.cmd = "setBreakpoints" THEN {} ELSE acked
  /\ link' = IF r.cmd = "disconnect" THEN "closing" ELSE link
  /\ UNCHANGED toClient
  /\ othersUnchanged

Receive ==
  /\ toClient # <<>>
  /\ toClient' = Tail(toClient)
  /\ LET msg == Head(toClient) IN
     IF msg.cmd \in {"stopped", "continued", "loadedSource"}
     THEN /\ view' = CASE msg.cmd = "stopped"      -> "stopped"
                       [] msg.cmd = "continued"    -> "running"
                       [] msg.cmd = "loadedSource" -> view
          /\ UNCHANGED <<waiting, acked, link>>
     ELSE /\ waiting' = waiting - 1
          /\ acked' = IF msg.cmd = "setBreakpoints" THEN msg.lines ELSE acked
          /\ link' = IF msg.cmd = "disconnect" THEN "closed" ELSE link
          /\ UNCHANGED view
  /\ UNCHANGED <<sent, asked, toServer>>
  /\ othersUnchanged

Requests == {Req(c) : c \in Commands \ {"setBreakpoints"}}
            \cup (IF "setBreakpoints" \in Commands
                  THEN {SetBps(S) : S \in SUBSET Lines} ELSE {})

Client == Connect \/ Receive \/ \E r \in Requests : SendRequest(r)

Next == CartThread \/ DapThread \/ Client

(* Both threads are scheduled; a running Lua function is not obliged to    *)
(* reach any hook event, the client not obliged to send, but it reads.     *)
Fairness ==
  /\ WF_vars(DapThread)
  /\ WF_vars(EnterPause) /\ WF_vars(SendStopped) /\ WF_vars(PollContinue)
  /\ WF_vars(LeavePause) /\ WF_vars(SendContinued)
  /\ WF_vars(Join) /\ WF_vars(Receive)

Spec == Init /\ [][Next]_vars /\ Fairness

------------------------------------------------------------------------------
PauseStates == {"enter", "stopped", "poll", "leave", "continued"}

(* Program counters and fields of both threads stay in range, and the cart *)
(* never pauses below its outermost Lua function.                          *)
TypeOK ==
  /\ cpc \in {"waiting", "starting", "idle", "lua", "joining", "exit", "crashed"}
             \cup PauseStates
  /\ depth \in 0 .. MaxDepth /\ (cpc \in PauseStates => depth > 0)
  /\ cause \in {"none", "pause", "step", "breakpoint", "budget"}
  /\ bps \subseteq Lines /\ Cardinality(bps) <= MaxBps
  /\ stepMode \in {"none", "in", "over", "out"} /\ baseDepth \in 0 .. MaxDepth
  /\ waiting \in 0 .. MaxRequests
  /\ link \in {"off", "on", "closing", "closed"}

(* No stop the user cannot see: when every message has been delivered and  *)
(* the cart sits in its pause loop with nothing telling it to go on, the   *)
(* client believes it stopped.  A continue posted for one stop must not be *)
(* eaten by the next one, nor a stop be announced before it is in force.   *)
NoInvisibleStop ==
  (/\ cpc = "poll" /\ ~contPending
   /\ link = "on" /\ spc = "read" /\ toServer = <<>> /\ toClient = <<>>)
    => view = "stopped"

(* The DAP thread walks the Lua stack outside the mutex: the cart thread   *)
(* must stand in the pause loop, on that state, for as long as it does.    *)
WalkOnlyWhileStopped ==
  spc = "walk" => /\ cpc \in {"stopped", "poll", "leave"}
                  /\ walkL = cartL

(* The two threads agree on a stop: both stay in their protocol's states,  *)
(* the client learns of every stop, and nobody reads the cart's Lua stack  *)
(* while the cart moves.                                                   *)
StopDiscipline == TypeOK /\ NoInvisibleStop /\ WalkOnlyWhileStopped

(* A step ends where the user asked: stepping over stops no deeper, and    *)
(* stepping out strictly shallower, than the stop the request was made at  *)
(* (master_hook.h:29-31).                                                  *)
StepEndsWhereAsked ==
  (cpc = "enter" /\ cause = "step") =>
    /\ asked.mode = "over" => depth <= asked.from
    /\ asked.mode = "out"  => depth < asked.from

(* A line whose breakpoint the client was told is verified does not run    *)
(* past the hook without a stop.                                           *)
AckedBreakpointStops ==
  [][\A l \in Lines : (HookLine(l) /\ cpc' = "lua" /\ attached)
                        => l \notin acked]_vars

(* dap_lua_host.c's budget is for the cart's work: budget exceeded is not  *)
(* raised because a user looked at a breakpoint.                           *)
BudgetChargesOnlyWork ==
  [][(HookCount /\ cause' = "budget" /\ ~InChunk) => work' > Budget]_vars

\* The chunk of a reload stopped on the DAP thread before the cart thread
\* polled: the first critical section of the chunk's own pause loop took
\* back the continue, and the thread that could post another one is parked.
ContinueErased == spc = "selfpaused" /\ cpc = "poll" /\ ~contPending

(* A client that stays hears "continued": its continue or step got the     *)
(* cart running.  There are two ways to lose it and no others, both a      *)
(* reload's: the cart resumes into a state the reload closed, or the       *)
(* reload's chunk stops first and erases the continue (dap_server.c:623).  *)
ResumeIsNotLost ==
  (view = "resuming" /\ link = "on")
     ~> (view = "running" \/ link # "on" \/ cpc = "crashed" \/ ContinueErased)

(* A client that disconnects leaves a cart that is not held in a pause.    *)
DisconnectFreesTheCart == (link = "closed") ~> (cpc \notin {"poll", "stopped", "enter"})

(* After the last frame the harness ends: the DAP thread it joins comes    *)
(* out of whatever it is doing, its own pause loop included.               *)
ShutdownEnds == (cpc = "joining") ~> (cpc = "exit")

(* loadedSource is sent after the new state is fully prepared              *)
(* (dap_server.c:412-415).                                                 *)
LoadedSourceMeansPrepared == [][Loaded => loadedOK]_vars

(* The cart thread closes the old state and builds the new one             *)
(* (dap_server.c:458-461): it never runs a state that was closed.          *)
CartRunsALiveState == cpc \in {"lua"} \cup PauseStates => cartL \notin closed
==============================================================================
