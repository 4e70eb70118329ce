--------------------------- MODULE DapDebugProofs ---------------------------
(***************************************************************************)
(* Proofs about the debugger seam, for a client that waits for the answer  *)
(* to a request before it sends the next one and acts on the stop it saw   *)
(* (~Pipelines, which is how the repository's own DAP client is written):  *)
(* every number of lines, frames, calls, hook events and requests.         *)
(*                                                                         *)
(* The argument.  One request exists at a time: on its way, handled, or    *)
(* answered (OneRequest).  A request that resumes or walks the stack is    *)
(* therefore sent, read and handled while the cart sits in one and the     *)
(* same pause loop, its stop delivered and nobody telling it to go on      *)
(* (Flight).  What the client believes is where the cart stands, up to the *)
(* one stop or continue that is still in the socket (Belief), and the      *)
(* socket never holds a continue behind a stop (Stops, Continues, Quiet).  *)
(* The step in force is then the one asked for at this stop's depth        *)
(* (StepAsked), and the table holds what the last answer verified (Acked). *)
(***************************************************************************)
EXTENDS DapDebug, FiniteSetTheorems, TLAPS

(***************************************************************************)
(* The inductive invariant.                                                *)
(***************************************************************************)
News == {"stopped", "continued"}
Events == News \cup {"loadedSource"}
Msgs == [cmd : Handlers \cup Events \cup {"none"}, lines : SUBSET Lines]

\* A request is being handled: its response is still to come.
Handling == Handlers \cup {"walk", "build", "selfpaused", "loaded", "reply"}

\* No stop or continue is on its way to the client; one continue and nothing
\* else; a stop, and after it nothing.
Quiet(s) == \A i \in DOMAIN s : s[i].cmd \notin News
Continues(s) ==
  \E i \in DOMAIN s : /\ s[i].cmd = "continued"
                      /\ \A j \in DOMAIN s : j # i => s[j].cmd \notin News
Stops(s) ==
  \E i \in DOMAIN s : /\ s[i].cmd = "stopped"
                      /\ \A j \in DOMAIN s :
                           j # i /\ s[j].cmd \in News => j < i /\ s[j].cmd = "continued"

Types ==
  /\ TypeOK
  /\ cpc = "lua" => depth > 0
  /\ toServer \in Seq(Msgs) /\ toClient \in Seq(Msgs) /\ req \in Msgs
  /\ view \in {"running", "stopped", "resuming"}
  /\ built \in Nat /\ cartL \in Nat /\ curL \in Nat /\ pausedL \in Nat
  /\ spc \in Handling \cup {"accept", "read", "post", "ended"}
  /\ asked \in [mode : {"none", "in", "over", "out"}, from : Nat]
  /\ sent \in Nat /\ acked \in SUBSET Lines

\* Nothing was asked for yet: the cart runs and has no reason to stop.
Untouched == /\ bps = {} /\ stepMode = "none" /\ ~pendingPause
             /\ cpc \notin PauseStates

\* Who is still there.
Threads ==
  /\ ~running => cpc \in {"joining", "exit"}
  /\ attached <=> spc \notin {"accept", "ended"}
  /\ (running /\ ~attached) => link = "closed" \/ Untouched
  /\ link = "off" => /\ ~attached /\ toClient = <<>> /\ toServer = <<>>
                     /\ view = "running"

\* No response is on its way to the client; at most one; only lines of B.
NoAnswer(s) == \A i \in DOMAIN s : s[i].cmd \in Events
OneAnswer(s) ==
  \A i, j \in DOMAIN s : s[i].cmd \notin Events /\ s[j].cmd \notin Events => i = j
Verified(s, B) ==
  \A i \in DOMAIN s : s[i].cmd = "setBreakpoints" => s[i].lines \subseteq B

\* One request at a time: on its way, handled, or answered.
OneRequest ==
  /\ waiting \in {0, 1}
  /\ toServer # <<>> =>
       /\ waiting = 1 /\ Len(toServer) = 1 /\ spc \notin Handling /\ NoAnswer(toClient)
       /\ toServer[1].cmd \in Handlers
       /\ toServer[1].cmd = "disconnect" <=> link # "on"
  /\ spc \in Handling =>
       /\ waiting = 1 /\ toServer = <<>> /\ NoAnswer(toClient)
       /\ req.cmd = "disconnect" <=> link # "on"
  /\ OneAnswer(toClient) /\ (waiting = 0 => NoAnswer(toClient))
  /\ spc = "post" => link # "on"

\* The request is the one its handler was chosen by.
RequestOK ==
  /\ spc \in Handlers => req.cmd = spc
  /\ spc \in {"build", "selfpaused", "loaded"} => req.cmd = "hot_reload"
  /\ spc = "walk" => req.cmd = "stackTrace"
  /\ spc = "reply" => req.cmd \in Handlers \ {"disconnect"}

\* One of these requests is on its way to a server that reads, or handled.
InFlight(C) ==
  (running /\ toServer # <<>> /\ toServer[1].cmd \in C) \/ spc \in C

\* The cart stands in its pause loop and nobody told it to go on.
Held == cpc = "poll" /\ ~contPending /\ Quiet(toClient)

Flight ==
  /\ InFlight(Resumes) => Held /\ view = "resuming"
  /\ InFlight({"stackTrace", "walk"}) => Held /\ view = "stopped"

\* What the client believes, as long as it stays, the server runs and no
\* reload has stopped in its own pause loop.
Belief ==
  (running /\ spc # "selfpaused" /\ link = "on") =>
    /\ cpc = "stopped" => ~contPending
    /\ cpc \in {"leave", "continued"} \/ (cpc = "poll" /\ contPending)
         => Quiet(toClient) /\ view = "resuming"
    /\ cpc = "poll" /\ ~contPending =>
         \/ Stops(toClient) /\ view # "stopped"
         \/ Quiet(toClient) /\ view = "stopped"
         \/ Quiet(toClient) /\ view = "resuming" /\ InFlight(Resumes)
    /\ cpc \notin {"poll", "leave", "continued"} =>
         \/ Continues(toClient) /\ view = "resuming"
         \/ Quiet(toClient) /\ view = "running"
         \/ Quiet(toClient) /\ view = "resuming" /\ cpc = "crashed"

\* The state the cart is paused in.
PausedIn ==
  /\ cpc \in {"lua"} \cup PauseStates => cartL # 0
  /\ (cpc \in {"stopped", "poll", "leave"} /\ spc # "selfpaused") => pausedL = cartL
  /\ spc = "walk" => walkL = cartL

\* The step in force is the last one asked for, from the depth it was asked at.
StepAsked ==
  /\ (stepMode # "none" /\ ~(toServer # <<>> /\ toServer[1].cmd \in DOMAIN StepMode)
        /\ spc \notin DOMAIN StepMode)
       => asked.mode = stepMode /\ asked.from = baseDepth
  /\ (toServer # <<>> /\ running /\ toServer[1].cmd \in DOMAIN StepMode)
       => asked = [mode |-> StepMode[toServer[1].cmd], from |-> depth]
  /\ spc \in DOMAIN StepMode => asked = [mode |-> StepMode[spc], from |-> depth]

\* The lines the client knows of are in the table.
Acked ==
  /\ acked \subseteq bps \ {0}
  /\ Verified(toClient, bps \ {0})
  /\ toServer # <<>> /\ toServer[1].cmd = "setBreakpoints" => acked = {}
  /\ spc \in Handling /\ req.cmd = "setBreakpoints" => acked = {}

DapInv == /\ Types /\ Threads /\ OneRequest /\ RequestOK /\ Flight /\ Belief
          /\ PausedIn /\ StepAsked /\ StepEndsWhereAsked /\ Acked

(***************************************************************************)
(* The messages on their way to the client.                                *)
(***************************************************************************)
\* A message is appended.
LEMMA AppendMsg ==
  ASSUME NEW s \in Seq(Msgs), NEW m \in Msgs
  PROVE  /\ Append(s, m) \in Seq(Msgs)
         /\ m.cmd \notin News => /\ Quiet(s) => Quiet(Append(s, m))
                                 /\ Continues(s) => Continues(Append(s, m))
                                 /\ Stops(s) => Stops(Append(s, m))
         /\ m.cmd = "continued" /\ Quiet(s) => Continues(Append(s, m))
         /\ m.cmd = "stopped" /\ (Quiet(s) \/ Continues(s)) => Stops(Append(s, m))
         /\ OneAnswer(s) /\ m.cmd \in Events => OneAnswer(Append(s, m))
         /\ NoAnswer(s) /\ m.cmd \in Events => NoAnswer(Append(s, m))
         /\ NoAnswer(s) => OneAnswer(Append(s, m))
         /\ \A B : Verified(s, B) /\ (m.cmd = "setBreakpoints" => m.lines \subseteq B)
                     => Verified(Append(s, m), B)
<1> PICK t : t = Append(s, m)
  OBVIOUS
<1> PICK n \in Nat : n = Len(s) /\ DOMAIN s = 1 .. n
  OBVIOUS
<1>1. /\ t \in Seq(Msgs) /\ DOMAIN t = 1 .. (n + 1) /\ t[n + 1] = m
      /\ \A i \in 1 .. n : t[i] = s[i]
  OBVIOUS
<1>2. \A i \in 1 .. (n + 1) : i \in 1 .. n \/ i = n + 1
  OBVIOUS
<1>3. n + 1 \in 1 .. (n + 1) /\ \A i \in 1 .. n : i \in 1 .. (n + 1) /\ i < n + 1 /\ i # n + 1
  OBVIOUS
<1>4. ASSUME m.cmd \notin News
      PROVE  /\ Quiet(s) => Quiet(t)
             /\ Continues(s) => Continues(t)
             /\ Stops(s) => Stops(t)
  <2>1. Quiet(s) => Quiet(t)
    BY <1>1, <1>2, <1>4 DEF Quiet
  <2>2. ASSUME Continues(s) PROVE Continues(t)
    <3> PICK i \in 1 .. n : /\ s[i].cmd = "continued"
                            /\ \A j \in 1 .. n : j # i => s[j].cmd \notin News
      BY <2>2 DEF Continues
    <3>1. i \in 1 .. (n + 1) /\ t[i].cmd = "continued"
      BY <1>1, <1>3
    <3>2. \A j \in 1 .. (n + 1) : j # i => t[j].cmd \notin News
      BY <1>1, <1>2, <1>4
    <3> QED BY <3>1, <3>2, <1>1, ZenonT(60) DEF Continues
  <2>3. ASSUME Stops(s) PROVE Stops(t)
    <3> PICK i \in 1 .. n : /\ s[i].cmd = "stopped"
                            /\ \A j \in 1 .. n : j # i /\ s[j].cmd \in News
                                 => j < i /\ s[j].cmd = "continued"
      BY <2>3 DEF Stops
    <3>1. i \in 1 .. (n + 1) /\ t[i].cmd = "stopped"
      BY <1>1, <1>3
    <3>2. \A j \in 1 .. (n + 1) : j # i /\ t[j].cmd \in News
            => j < i /\ t[j].cmd = "continued"
      BY <1>1, <1>2, <1>4
    <3> QED BY <3>1, <3>2, <1>1 DEF Stops
  <2> QED BY <2>1, <2>2, <2>3
<1>5. ASSUME m.cmd = "continued", Quiet(s) PROVE Continues(t)
  BY <1>1, <1>2, <1>3, <1>5 DEF Continues, Quiet
<1>6. ASSUME m.cmd = "stopped", Quiet(s) \/ Continues(s) PROVE Stops(t)
  <2>1. \A j \in 1 .. n : s[j].cmd \in News => s[j].cmd = "continued"
    BY <1>6 DEF Quiet, Continues
  <2> QED BY <1>1, <1>2, <1>3, <1>6, <2>1 DEF Stops
<1>7. /\ OneAnswer(s) /\ m.cmd \in Events => OneAnswer(t)
      /\ NoAnswer(s) /\ m.cmd \in Events => NoAnswer(t)
      /\ NoAnswer(s) => OneAnswer(t)
  BY <1>1, <1>2 DEF OneAnswer, NoAnswer
<1>8. \A B : Verified(s, B) /\ (m.cmd = "setBreakpoints" => m.lines \subseteq B)
               => Verified(t, B)
  BY <1>1, <1>2 DEF Verified
<1> QED BY <1>1, <1>4, <1>5, <1>6, <1>7, <1>8

\* The client takes the first message.
LEMMA TailMsg ==
  ASSUME NEW s \in Seq(Msgs), s # <<>>
  PROVE  /\ Tail(s) \in Seq(Msgs) /\ Head(s) \in Msgs
         /\ Quiet(s) => Quiet(Tail(s)) /\ Head(s).cmd \notin News
         /\ Continues(s) => /\ Head(s).cmd # "stopped"
                            /\ Head(s).cmd = "continued" => Quiet(Tail(s))
                            /\ Head(s).cmd # "continued" => Continues(Tail(s))
         /\ Stops(s) => IF Head(s).cmd = "stopped" THEN Quiet(Tail(s)) ELSE Stops(Tail(s))
         /\ OneAnswer(s) => /\ OneAnswer(Tail(s))
                            /\ Head(s).cmd \notin Events => NoAnswer(Tail(s))
         /\ NoAnswer(s) => NoAnswer(Tail(s)) /\ Head(s).cmd \in Events
         /\ \A B : Verified(s, B) =>
              /\ Verified(Tail(s), B)
              /\ Head(s).cmd = "setBreakpoints" => Head(s).lines \subseteq B
<1> PICK t : t = Tail(s)
  OBVIOUS
<1> PICK n \in Nat : n = Len(s) /\ n > 0 /\ DOMAIN s = 1 .. n
  OBVIOUS
<1> PICK h : h = Head(s)
  OBVIOUS
<1>1. /\ t \in Seq(Msgs) /\ DOMAIN t = 1 .. (n - 1) /\ h = s[1] /\ h \in Msgs
      /\ \A i \in 1 .. (n - 1) : t[i] = s[i + 1]
  OBVIOUS
<1>2. /\ \A i \in 1 .. (n - 1) : i + 1 \in 1 .. n /\ i + 1 # 1
      /\ \A i \in 1 .. n : i # 1 => i - 1 \in 1 .. (n - 1) /\ (i - 1) + 1 = i
      /\ 1 \in 1 .. n
  OBVIOUS
<1>3. Quiet(s) => Quiet(t) /\ h.cmd \notin News
  BY <1>1, <1>2 DEF Quiet
<1>4. ASSUME Continues(s)
      PROVE  /\ h.cmd # "stopped"
             /\ h.cmd = "continued" => Quiet(t)
             /\ h.cmd # "continued" => Continues(t)
  <2> PICK i \in 1 .. n : /\ s[i].cmd = "continued"
                          /\ \A j \in 1 .. n : j # i => s[j].cmd \notin News
    BY <1>4 DEF Continues
  <2>1. CASE i = 1
    BY <2>1, <1>1, <1>2 DEF Quiet
  <2>2. CASE i # 1
    <3>1. h.cmd \notin News
      BY <2>2, <1>1, <1>2
    <3>2. i - 1 \in 1 .. (n - 1) /\ t[i - 1].cmd = "continued"
      BY <2>2, <1>1, <1>2
    <3>3. \A j \in 1 .. (n - 1) : j # i - 1 => t[j].cmd \notin News
      BY <1>1, <1>2
    <3> QED BY <3>1, <3>2, <3>3, <1>1, ZenonT(60) DEF Continues, News
  <2> QED BY <2>1, <2>2
<1>5. ASSUME Stops(s) PROVE IF h.cmd = "stopped" THEN Quiet(t) ELSE Stops(t)
  <2> PICK i \in 1 .. n : /\ s[i].cmd = "stopped"
                          /\ \A j \in 1 .. n : j # i /\ s[j].cmd \in News
                               => j < i /\ s[j].cmd = "continued"
    BY <1>5 DEF Stops
  <2>1. CASE i = 1
    <3>1. \A j \in 1 .. (n - 1) : t[j].cmd \notin News
      BY <2>1, <1>1, <1>2
    <3> QED BY <2>1, <3>1, <1>1 DEF Quiet
  <2>2. CASE i # 1
    <3>1. h.cmd # "stopped"
      BY <2>2, <1>1, <1>2 DEF News
    <3>2. i - 1 \in 1 .. (n - 1) /\ t[i - 1].cmd = "stopped"
      BY <2>2, <1>1, <1>2
    <3>3. \A j \in 1 .. (n - 1) : j # i - 1 /\ t[j].cmd \in News
            => j < i - 1 /\ t[j].cmd = "continued"
      BY <1>1, <1>2
    <3> QED BY <3>1, <3>2, <3>3, <1>1, ZenonT(60) DEF Stops
  <2> QED BY <2>1, <2>2
<1>6. /\ OneAnswer(s) => OneAnswer(t) /\ (h.cmd \notin Events => NoAnswer(t))
      /\ NoAnswer(s) => NoAnswer(t) /\ h.cmd \in Events
  BY <1>1, <1>2 DEF OneAnswer, NoAnswer
<1>7. \A B : Verified(s, B) => /\ Verified(t, B)
                               /\ h.cmd = "setBreakpoints" => h.lines \subseteq B
  BY <1>1, <1>2 DEF Verified
<1> QED BY <1>1, <1>3, <1>4, <1>5, <1>6, <1>7

\* The table holds at most MAX_BREAKPOINTS lines: they have different places.
LEMMA TableFits ==
  ASSUME NEW S \in SUBSET Lines
  PROVE  BpsReplaced(S) \subseteq Lines /\ Cardinality(BpsReplaced(S)) <= MaxBps
<1> USE DapAssumption
<1> DEFINE B == BpsReplaced(S)
           Upto(l) == {k \in S : k <= l}
<1>1. S \subseteq Nat /\ IsFiniteSet(S)
  BY FS_Subset
<1>2. \A l : IsFiniteSet(Upto(l)) /\ Cardinality(Upto(l)) \in Nat
  <2> TAKE l
  <2>1. Upto(l) \in SUBSET S
    OBVIOUS
  <2> HIDE DEF Upto
  <2> QED BY <1>1, <2>1, FS_Subset, FS_CardinalityType
<1>3. \A l \in S : Cardinality(Upto(l)) >= 1
  <2> TAKE l \in S
  <2>1. l \in Upto(l)
    BY <1>1
  <2> HIDE DEF Upto
  <2> QED BY <1>2, <2>1, FS_EmptySet
<1>4. \A i, j \in S : i < j => Cardinality(Upto(i)) < Cardinality(Upto(j))
  <2> SUFFICES ASSUME NEW i \in S, NEW j \in S, i < j
               PROVE  Cardinality(Upto(i)) < Cardinality(Upto(j))
    OBVIOUS
  <2>1. j \notin Upto(i) /\ j \in Upto(j)
    BY <1>1
  <2>2. \A k \in Upto(i) : k \in Upto(j)
    BY <1>1
  <2> HIDE DEF Upto
  <2>3. Cardinality(Upto(i) \cup {j}) = Cardinality(Upto(i)) + 1
    BY <1>2, <2>1, FS_AddElement
  <2>4. Upto(i) \cup {j} \in SUBSET Upto(j)
    BY <2>1, <2>2
  <2>5. Cardinality(Upto(i) \cup {j}) <= Cardinality(Upto(j))
    BY <1>2, <2>4, FS_Subset
  <2> QED BY <1>2, <2>3, <2>5
<1>5. B = {l \in S : Cardinality(Upto(l)) <= MaxBps}
  BY DEF BpsReplaced
<1> HIDE DEF B, Upto
<1> DEFINE f == [l \in B |-> Cardinality(Upto(l))]
<1>6. f \in Injection(B, 1 .. MaxBps)
  <2>1. \A l \in B : f[l] \in 1 .. MaxBps
    BY <1>2, <1>3, <1>5
  <2>2. \A i, j \in B : f[i] = f[j] => i = j
    BY <1>1, <1>2, <1>4, <1>5
  <2> QED BY <2>1, <2>2 DEF Injection, IsInjective
<1>7. IsFiniteSet(1 .. MaxBps) /\ Cardinality(1 .. MaxBps) = MaxBps
  BY FS_Interval
<1>8. Cardinality(B) <= MaxBps
  BY <1>6, <1>7, FS_Injection
<1> QED BY <1>5, <1>8 DEF B

(***************************************************************************)
(* What the actions do to the socket.                                      *)
(***************************************************************************)
LEMMA StepModes ==
  /\ DOMAIN StepMode = {"next", "stepIn", "stepOut"}
  /\ StepMode["next"] = "over" /\ StepMode["stepIn"] = "in" /\ StepMode["stepOut"] = "out"
BY DEF StepMode

LEMMA RequestsAreHandled ==
  ASSUME NEW r \in Requests PROVE r \in Msgs /\ r.cmd \in Handlers
<1>1. CASE \E c \in Commands \ {"setBreakpoints"} : r = Req(c)
  <2> PICK c \in Commands : r = Req(c)
    BY <1>1
  <2>1. c \in Handlers
    BY DapAssumption
  <2> QED BY <2>1 DEF Req, Msgs
<1>2. CASE \E S \in SUBSET Lines : r = SetBps(S)
  BY <1>2 DEF SetBps, Msgs, Handlers
<1> QED BY <1>1, <1>2 DEF Requests

LEMMA EventsAreMsgs ==
  ASSUME NEW c \in Events PROVE Req(c) \in Msgs /\ Req(c).cmd = c
BY DEF Events, News, Req, Msgs

\* send_msg appends for an attached client and does nothing without one.
LEMMA SentToClient ==
  ASSUME Types, NEW m \in Msgs, Sent(m)
  PROVE  /\ toClient' \in Seq(Msgs)
         /\ m.cmd \notin News => /\ Quiet(toClient) => Quiet(toClient')
                                 /\ Continues(toClient) => Continues(toClient')
                                 /\ Stops(toClient) => Stops(toClient')
         /\ attached /\ m.cmd = "continued" /\ Quiet(toClient) => Continues(toClient')
         /\ attached /\ m.cmd = "stopped" /\ (Quiet(toClient) \/ Continues(toClient))
              => Stops(toClient')
         /\ OneAnswer(toClient) /\ m.cmd \in Events => OneAnswer(toClient')
         /\ NoAnswer(toClient) /\ m.cmd \in Events => NoAnswer(toClient')
         /\ NoAnswer(toClient) => OneAnswer(toClient')
         /\ \A B : Verified(toClient, B) /\ (m.cmd = "setBreakpoints" => m.lines \subseteq B)
                     => Verified(toClient', B)
<1>1. toClient \in Seq(Msgs)
  BY DEF Types
<1>2. CASE attached
  <2>1. toClient' = Append(toClient, m)
    BY <1>2 DEF Sent
  <2> QED BY <1>1, <2>1, AppendMsg
<1>3. CASE ~attached
  <2>1. toClient' = toClient
    BY <1>3 DEF Sent
  <2>2. NoAnswer(toClient) => OneAnswer(toClient)
    BY DEF NoAnswer, OneAnswer
  <2> QED BY <1>1, <1>3, <2>1, <2>2
<1> QED BY <1>2, <1>3

\* The response to a reload, and loadedSource after it.
LEMMA LoadedMsgs ==
  ASSUME Types, OneRequest, RequestOK, Loaded
  PROVE  /\ toClient' \in Seq(Msgs)
         /\ Quiet(toClient) => Quiet(toClient')
         /\ Continues(toClient) => Continues(toClient')
         /\ Stops(toClient) => Stops(toClient')
         /\ OneAnswer(toClient')
         /\ \A B : Verified(toClient, B) => Verified(toClient', B)
<1>1. toClient \in Seq(Msgs) /\ NoAnswer(toClient) /\ req \in Msgs /\ req.cmd = "hot_reload"
  BY DEF Loaded, SrvStep, Types, OneRequest, RequestOK, Handling
<1>2. /\ Req("loadedSource") \in Msgs /\ Req("loadedSource").cmd = "loadedSource"
      /\ "loadedSource" \in Events
  BY EventsAreMsgs DEF Events
<1> PICK s : s = Append(toClient, req)
  OBVIOUS
<1> PICK t : t = Append(s, Req("loadedSource"))
  OBVIOUS
<1>3. /\ s \in Seq(Msgs)
      /\ Quiet(toClient) => Quiet(s)
      /\ Continues(toClient) => Continues(s)
      /\ Stops(toClient) => Stops(s)
      /\ OneAnswer(s)
      /\ \A B : Verified(toClient, B) => Verified(s, B)
  BY <1>1, AppendMsg DEF News
<1>4. /\ t \in Seq(Msgs)
      /\ Quiet(s) => Quiet(t)
      /\ Continues(s) => Continues(t)
      /\ Stops(s) => Stops(t)
      /\ OneAnswer(t)
      /\ \A B : Verified(s, B) => Verified(t, B)
  BY <1>2, <1>3, AppendMsg DEF News
<1>5. toClient' = t \/ toClient' = toClient
  <2>1. toClient \o <<req, Req("loadedSource")>> = t
    BY <1>1, <1>2
  <2> QED BY <2>1 DEF Loaded
<1>6. OneAnswer(toClient)
  BY DEF OneRequest
<1> QED BY <1>1, <1>3, <1>4, <1>5, <1>6

\* The response names the lines that are in the table.
LEMMA ReplyMsg ==
  ASSUME Types, RequestOK, Reply
  PROVE  \E m \in Msgs : /\ Sent(m) /\ m.cmd \in Handlers \ {"disconnect"}
                         /\ m.lines \subseteq bps \ {0}
<1> DEFINE m == [req EXCEPT !.lines = @ \cap (bps \ {0})]
<1>1. req \in Msgs /\ req.cmd \in Handlers \ {"disconnect"}
  BY DEF Reply, SrvStep, Types, RequestOK
<1>2. m \in Msgs /\ m.cmd = req.cmd /\ m.lines = req.lines \cap (bps \ {0})
  BY <1>1 DEF Msgs
<1>3. Sent(m)
  BY DEF Reply
<1> HIDE DEF m
<1> QED BY <1>1, <1>2, <1>3

\* Without pipelining a request goes out alone, and a resume or an inspection
\* only at a stop.
LEMMA SendsOne ==
  ASSUME OneRequest, ~Pipelines, NEW r \in Requests, SendRequest(r)
  PROVE  /\ waiting = 0 /\ toServer = <<>> /\ spc \notin Handling /\ link = "on"
         /\ NoAnswer(toClient)
         /\ waiting' = 1 /\ toServer' # <<>> /\ Len(toServer') = 1 /\ toServer'[1] = r
         /\ r \in Msgs /\ toServer' \in Seq(Msgs) /\ r.cmd \in Handlers
         /\ r.cmd \in Resumes \cup {"stackTrace"} => view = "stopped"
<1>1. /\ waiting = 0 /\ link = "on"
      /\ r.cmd \in Resumes \cup {"stackTrace"} => view = "stopped"
      /\ waiting' = 1 /\ toServer' = Append(toServer, r)
  BY DEF SendRequest, Allowed
<1>2. toServer = <<>> /\ spc \notin Handling /\ NoAnswer(toClient)
  BY <1>1 DEF OneRequest
<1>3. toServer' # <<>> /\ Len(toServer') = 1 /\ toServer'[1] = r
  BY <1>1, <1>2
<1>4. r \in Msgs /\ r.cmd \in Handlers
  BY RequestsAreHandled
<1>5. toServer' \in Seq(Msgs)
  BY <1>1, <1>2, <1>4
<1> QED BY <1>1, <1>2, <1>3, <1>4, <1>5


(***************************************************************************)
(* Each part of the invariant is kept by every step.                       *)
(***************************************************************************)

LEMMA TypesNext ==
  ASSUME DapInv, ~Pipelines, [Next]_vars PROVE Types'
<1> USE DEF cartVars, luaVars, cfgVars, srvVars, cliVars, InLua, PauseStep,
            SrvStep, NewState, othersUnchanged, Types, TypeOK, Handling,
            Handlers, Stateless, PauseStates, Threads, OneRequest, RequestOK,
            PausedIn
<1>0. Types /\ Threads /\ OneRequest /\ RequestOK /\ PausedIn
  BY DEF DapInv
<1>1. CASE StartCart
  BY <1>0, <1>1, DapAssumption DEF StartCart
<1>2. CASE CallFn
  BY <1>0, <1>2, DapAssumption DEF CallFn
<1>3. CASE Shutdown
  BY <1>0, <1>3, DapAssumption DEF Shutdown
<1>4. CASE Join
  BY <1>0, <1>4, DapAssumption DEF Join
<1>5. CASE HookCall
  BY <1>0, <1>5, DapAssumption, SMTT(30) DEF HookCall
<1>6. CASE HookReturn
  <2>1. depth \in 1 .. MaxDepth
    BY <1>0, <1>6 DEF HookReturn
  <2>2. /\ depth' \in 0 .. MaxDepth
        /\ cpc' \in {"lua"} \cup PauseStates => depth' > 0
        /\ cpc' \in {"idle", "lua", "enter"}
        /\ cause' \in {"none", "pause", "step", "breakpoint", "budget"}
    <3>1. CASE pendingPause
      BY <1>0, <1>6, <2>1, <3>1 DEF HookReturn
    <3>2. CASE ~pendingPause
      <4>1. cause' = cause /\ depth' = depth - 1
            /\ cpc' = IF depth = 1 THEN "idle" ELSE "lua"
        BY <1>6, <3>2 DEF HookReturn
      <4> QED BY <1>0, <2>1, <4>1, DapAssumption
    <3> QED BY <3>1, <3>2
  <2> QED BY <1>0, <1>6, <2>2 DEF HookReturn
<1>7. CASE HookCount
  <2>1. /\ depth' \in 0 .. MaxDepth
        /\ cpc' \in {"lua"} \cup PauseStates => depth' > 0
        /\ cpc' \in {"idle", "exit", "lua", "enter"}
        /\ cause' \in {"none", "pause", "step", "breakpoint", "budget"}
    BY <1>0, <1>7, DapAssumption, SMTT(30) DEF HookCount
  <2> QED BY <1>0, <1>7, <2>1 DEF HookCount
<1>8. ASSUME NEW l \in Lines, HookLine(l) PROVE Types'
  BY <1>0, <1>8, DapAssumption, SMTT(30) DEF HookLine
<1>9. CASE EndOfCall
  BY <1>0, <1>9, DapAssumption DEF EndOfCall
<1>10. CASE EnterPause
  BY <1>0, <1>10, DapAssumption DEF EnterPause
<1>11. CASE SendStopped
  <2>1. Sent(Req("stopped")) /\ Req("stopped") \in Msgs /\ Req("stopped").cmd = "stopped"
        /\ "stopped" \in Events
    BY <1>11, EventsAreMsgs DEF SendStopped, Events, News
  <2>2. toClient' \in Seq(Msgs)
    BY <1>0, <2>1, SentToClient DEF Events, News
  <2> QED BY <1>0, <1>11, <2>1, <2>2 DEF SendStopped
<1>12. CASE PollContinue
  BY <1>0, <1>12, DapAssumption DEF PollContinue
<1>13. CASE LeavePause
  BY <1>0, <1>13, DapAssumption DEF LeavePause
<1>14. CASE SendContinued
  <2>1. Sent(Req("continued")) /\ Req("continued") \in Msgs /\ Req("continued").cmd = "continued"
        /\ "continued" \in Events
    BY <1>14, EventsAreMsgs DEF SendContinued, Events, News
  <2>2. toClient' \in Seq(Msgs)
    BY <1>0, <2>1, SentToClient DEF Events, News
  <2>3. depth' \in 0 .. MaxDepth /\ (cpc' = "lua" => depth' > 0) /\ cpc' \in {"idle", "lua"}
    BY <1>0, <1>14, DapAssumption DEF SendContinued
  <2> QED BY <1>0, <1>14, <2>2, <2>3 DEF SendContinued
<1>15. CASE UseAfterClose
  BY <1>0, <1>15, DapAssumption DEF UseAfterClose
<1>16. CASE Accept
  BY <1>0, <1>16, DapAssumption DEF Accept
<1>17. CASE ReadMsg
  BY <1>0, <1>17, DapAssumption DEF ReadMsg
<1>18. CASE HandleConfigurationDone
  BY <1>0, <1>18, DapAssumption DEF HandleConfigurationDone
<1>19. CASE HandleSetBreakpoints
  <2>1. bps' \subseteq Lines /\ Cardinality(bps') <= MaxBps
    BY <1>0, <1>19, TableFits DEF HandleSetBreakpoints, Types, Msgs
  <2> QED BY <1>0, <1>19, <2>1 DEF HandleSetBreakpoints
<1>20. CASE HandleStateless
  BY <1>0, <1>20, DapAssumption DEF HandleStateless
<1>21. CASE HandleStackTrace
  BY <1>0, <1>21, DapAssumption DEF HandleStackTrace
<1>22. CASE EndWalk
  BY <1>0, <1>22, DapAssumption DEF EndWalk
<1>23. CASE HandleContinue
  BY <1>0, <1>23, DapAssumption DEF HandleContinue
<1>24. ASSUME NEW m \in DOMAIN StepMode, HandleStep(m) PROVE Types'
  <2>1. stepMode' \in {"in", "over", "out"} /\ baseDepth' \in 0 .. MaxDepth
    BY <1>0, <1>24, StepModes, DapAssumption DEF HandleStep, BaseDepthNow, Types, TypeOK
  <2> QED BY <1>0, <1>24, <2>1 DEF HandleStep
<1>25. CASE HandlePause
  BY <1>0, <1>25, DapAssumption DEF HandlePause
<1>26. CASE HandleDisconnect
  <2>1. Sent(req) /\ req \in Msgs /\ req.cmd = "disconnect" /\ NoAnswer(toClient)
    BY <1>0, <1>26 DEF HandleDisconnect, Types, OneRequest, RequestOK, Handlers, Handling
  <2>2. toClient' \in Seq(Msgs)
    BY <1>0, <2>1, SentToClient DEF Events, News
  <2> QED BY <1>0, <1>26, <2>1, <2>2 DEF HandleDisconnect
<1>27. CASE PostDisconnect
  BY <1>0, <1>27, DapAssumption DEF PostDisconnect
<1>28. CASE ReloadClose
  BY <1>0, <1>28, DapAssumption DEF ReloadClose
<1>29. CASE ReloadOutOfMemory
  BY <1>0, <1>29, DapAssumption DEF ReloadOutOfMemory
<1>30. CASE ReloadBuild
  BY <1>0, <1>30, DapAssumption DEF ReloadBuild
<1>31. CASE ReloadPauses
  <2>1. Sent(Req("stopped")) /\ Req("stopped") \in Msgs /\ Req("stopped").cmd = "stopped"
        /\ "stopped" \in Events
    BY <1>31, EventsAreMsgs DEF ReloadPauses, Events, News
  <2>2. toClient' \in Seq(Msgs)
    BY <1>0, <2>1, SentToClient DEF Events, News
  <2> QED BY <1>0, <1>31, <2>1, <2>2 DEF ReloadPauses, ChunkStops
<1>32. CASE SelfPausedEnds
  <2>1. Sent(Req("continued")) /\ Req("continued") \in Msgs /\ Req("continued").cmd = "continued"
        /\ "continued" \in Events
    BY <1>32, EventsAreMsgs DEF SelfPausedEnds, Events, News
  <2>2. toClient' \in Seq(Msgs)
    BY <1>0, <2>1, SentToClient DEF Events, News
  <2> QED BY <1>0, <1>32, <2>1, <2>2 DEF SelfPausedEnds
<1>33. CASE Loaded
  <2>1. toClient' \in Seq(Msgs)
    BY <1>0, <1>33, LoadedMsgs
  <2> QED BY <1>0, <1>33, <2>1 DEF Loaded
<1>34. CASE Reply
  <2> PICK m \in Msgs : /\ Sent(m) /\ m.cmd \in Handlers \ {"disconnect"}
                        /\ m.lines \subseteq bps \ {0}
    BY <1>0, <1>34, ReplyMsg
  <2>1. Sent(m) /\ m.cmd \notin News /\ NoAnswer(toClient)
    BY <1>0, <1>34 DEF Reply, News
  <2>2. toClient' \in Seq(Msgs)
    BY <1>0, <2>1, SentToClient DEF Events, News
  <2> QED BY <1>0, <1>34, <2>1, <2>2 DEF Reply
<1>35. CASE CloseClient
  BY <1>0, <1>35, DapAssumption DEF CloseClient
<1>36. CASE ThreadEnds
  BY <1>0, <1>36, DapAssumption, SMTT(30) DEF ThreadEnds
<1>37. CASE Connect
  BY <1>0, <1>37, DapAssumption DEF Connect
<1>38. CASE Receive
  <2> PICK h : h = Head(toClient)
    OBVIOUS
  <2>1. toClient \in Seq(Msgs) /\ toClient # <<>> /\ toClient' = Tail(toClient)
    BY <1>0, <1>38 DEF Receive, Types
  <2>2. toClient' \in Seq(Msgs) /\ h \in Msgs /\ (NoAnswer(toClient) => h.cmd \in Events)
    BY <2>1, TailMsg
  <2>3. /\ view' \in {"running", "stopped", "resuming"}
        /\ waiting' \in 0 .. MaxRequests
        /\ link' \in {"off", "on", "closing", "closed"}
        /\ acked' \in SUBSET Lines
    <3>1. CASE h.cmd \in Events
      BY <1>0, <1>38, <3>1 DEF Receive, Types, TypeOK, Events, News
    <3>2. CASE h.cmd \notin Events
      <4>1. waiting = 1 /\ waiting \in 0 .. MaxRequests
        BY <1>0, <2>2, <3>2 DEF OneRequest, Types, TypeOK
      <4>2. view' = view /\ waiting' = waiting - 1
            /\ acked' = (IF h.cmd = "setBreakpoints" THEN h.lines ELSE acked)
            /\ link' = (IF h.cmd = "disconnect" THEN "closed" ELSE link)
        BY <1>38, <3>2 DEF Receive, Events, News
      <4>3. waiting' \in 0 .. MaxRequests
        BY <4>1, <4>2, DapAssumption
      <4> QED BY <1>0, <2>2, <4>2, <4>3 DEF Types, TypeOK, Msgs
    <3> QED BY <3>1, <3>2
  <2> QED BY <1>0, <1>38, <2>2, <2>3 DEF Receive
<1>39. ASSUME NEW r \in Requests, SendRequest(r) PROVE Types'
  <2>1. toServer' \in Seq(Msgs) /\ waiting' = 1
    BY <1>0, <1>39, SendsOne
  <2>2. sent' \in Nat /\ 1 <= MaxRequests
    BY <1>0, <1>39, DapAssumption DEF SendRequest, Types
  <2>3. asked' \in [mode : {"none", "in", "over", "out"}, from : Nat]
    BY <1>0, <1>39, StepModes, DapAssumption, SMTT(30) DEF SendRequest
  <2>4. waiting' \in 0 .. MaxRequests
    BY <2>1, <2>2, DapAssumption
  <2> QED BY <1>0, <1>39, <2>1, <2>2, <2>3, <2>4 DEF SendRequest
<1>41. CASE ReloadRefused
  BY <1>0, <1>41, DapAssumption DEF ReloadRefused
<1>40. CASE UNCHANGED vars
  BY <1>0, <1>40 DEF vars
<1> QED BY <1>1, <1>2, <1>3, <1>4, <1>5, <1>6, <1>7, <1>8, <1>9, <1>10, <1>11,
           <1>12, <1>13, <1>14, <1>15, <1>16, <1>17, <1>18, <1>19, <1>20,
           <1>21, <1>22, <1>23, <1>24, <1>25, <1>26, <1>27, <1>28, <1>29,
           <1>30, <1>31, <1>32, <1>33, <1>34, <1>35, <1>36, <1>37, <1>38,
           <1>39, <1>40, <1>41
       DEF Next, CartThread, DapThread, Client

LEMMA ThreadsNext ==
  ASSUME DapInv, ~Pipelines, [Next]_vars PROVE Threads'
<1> USE DEF cartVars, luaVars, cfgVars, srvVars, cliVars, InLua, PauseStep,
            SrvStep, NewState, othersUnchanged, Threads, Types, TypeOK,
            PauseStates, Handling, Handlers, Stateless, OneRequest, RequestOK,
            Untouched
<1>0. Types /\ Threads /\ OneRequest /\ RequestOK
  BY DEF DapInv
<1>1. CASE StartCart
  BY <1>0, <1>1 DEF StartCart
<1>2. CASE CallFn
  BY <1>0, <1>2 DEF CallFn
<1>3. CASE Shutdown
  BY <1>0, <1>3 DEF Shutdown
<1>4. CASE Join
  BY <1>0, <1>4 DEF Join
<1>5. CASE HookCall
  BY <1>0, <1>5 DEF HookCall
<1>6. CASE HookReturn
  BY <1>0, <1>6 DEF HookReturn
<1>7. CASE HookCount
  BY <1>0, <1>7 DEF HookCount
<1>8. ASSUME NEW l \in Lines, HookLine(l) PROVE Threads'
  BY <1>0, <1>8 DEF HookLine, StepDue, ShouldBreak
<1>9. CASE EndOfCall
  BY <1>0, <1>9 DEF EndOfCall
<1>10. CASE EnterPause
  BY <1>0, <1>10 DEF EnterPause
<1>11. CASE SendStopped
  BY <1>0, <1>11 DEF SendStopped
<1>12. CASE PollContinue
  BY <1>0, <1>12 DEF PollContinue
<1>13. CASE LeavePause
  BY <1>0, <1>13 DEF LeavePause
<1>14. CASE SendContinued
  BY <1>0, <1>14 DEF SendContinued
<1>15. CASE UseAfterClose
  BY <1>0, <1>15 DEF UseAfterClose
<1>16. CASE Accept
  BY <1>0, <1>16 DEF Accept
<1>17. CASE ReadMsg
  BY <1>0, <1>17 DEF ReadMsg
<1>18. CASE HandleConfigurationDone
  BY <1>0, <1>18 DEF HandleConfigurationDone
<1>19. CASE HandleSetBreakpoints
  BY <1>0, <1>19 DEF HandleSetBreakpoints
<1>20. CASE HandleStateless
  BY <1>0, <1>20 DEF HandleStateless
<1>21. CASE HandleStackTrace
  BY <1>0, <1>21 DEF HandleStackTrace
<1>22. CASE EndWalk
  BY <1>0, <1>22 DEF EndWalk
<1>23. CASE HandleContinue
  BY <1>0, <1>23 DEF HandleContinue
<1>24. ASSUME NEW m \in DOMAIN StepMode, HandleStep(m) PROVE Threads'
  BY <1>0, <1>24, StepModes DEF HandleStep
<1>25. CASE HandlePause
  BY <1>0, <1>25 DEF HandlePause
<1>26. CASE HandleDisconnect
  BY <1>0, <1>26 DEF HandleDisconnect
<1>27. CASE PostDisconnect
  BY <1>0, <1>27 DEF PostDisconnect
<1>28. CASE ReloadClose
  BY <1>0, <1>28 DEF ReloadClose
<1>29. CASE ReloadOutOfMemory
  BY <1>0, <1>29 DEF ReloadOutOfMemory
<1>30. CASE ReloadBuild
  BY <1>0, <1>30 DEF ReloadBuild
<1>31. CASE ReloadPauses
  BY <1>0, <1>31 DEF ReloadPauses
<1>32. CASE SelfPausedEnds
  BY <1>0, <1>32 DEF SelfPausedEnds
<1>33. CASE Loaded
  BY <1>0, <1>33 DEF Loaded
<1>34. CASE Reply
  BY <1>0, <1>34 DEF Reply
<1>35. CASE CloseClient
  BY <1>0, <1>35 DEF CloseClient
<1>36. CASE ThreadEnds
  BY <1>0, <1>36 DEF ThreadEnds
<1>37. CASE Connect
  BY <1>0, <1>37 DEF Connect
<1>38. CASE Receive
  BY <1>0, <1>38 DEF Receive
<1>39. ASSUME NEW r \in Requests, SendRequest(r) PROVE Threads'
  BY <1>0, <1>39 DEF SendRequest
<1>41. CASE ReloadRefused
  BY <1>0, <1>41 DEF ReloadRefused
<1>40. CASE UNCHANGED vars
  BY <1>0, <1>40 DEF vars
<1> QED BY <1>1, <1>2, <1>3, <1>4, <1>5, <1>6, <1>7, <1>8, <1>9, <1>10, <1>11,
           <1>12, <1>13, <1>14, <1>15, <1>16, <1>17, <1>18, <1>19, <1>20,
           <1>21, <1>22, <1>23, <1>24, <1>25, <1>26, <1>27, <1>28, <1>29,
           <1>30, <1>31, <1>32, <1>33, <1>34, <1>35, <1>36, <1>37, <1>38,
           <1>39, <1>40, <1>41
       DEF Next, CartThread, DapThread, Client

LEMMA RequestOKNext ==
  ASSUME DapInv, ~Pipelines, [Next]_vars PROVE RequestOK'
<1> USE DEF cartVars, luaVars, cfgVars, srvVars, cliVars, InLua, PauseStep,
            SrvStep, NewState, othersUnchanged, Types, Handling, Handlers,
            Stateless, OneRequest, RequestOK
<1>0. Types /\ Threads /\ OneRequest /\ RequestOK
  BY DEF DapInv
<1>1. CASE StartCart
  BY <1>0, <1>1 DEF StartCart
<1>2. CASE CallFn
  BY <1>0, <1>2 DEF CallFn
<1>3. CASE Shutdown
  BY <1>0, <1>3 DEF Shutdown
<1>4. CASE Join
  BY <1>0, <1>4 DEF Join
<1>5. CASE HookCall
  BY <1>0, <1>5 DEF HookCall
<1>6. CASE HookReturn
  BY <1>0, <1>6 DEF HookReturn
<1>7. CASE HookCount
  BY <1>0, <1>7 DEF HookCount
<1>8. ASSUME NEW l \in Lines, HookLine(l) PROVE RequestOK'
  BY <1>0, <1>8 DEF HookLine
<1>9. CASE EndOfCall
  BY <1>0, <1>9 DEF EndOfCall
<1>10. CASE EnterPause
  BY <1>0, <1>10 DEF EnterPause
<1>11. CASE SendStopped
  BY <1>0, <1>11 DEF SendStopped
<1>12. CASE PollContinue
  BY <1>0, <1>12 DEF PollContinue
<1>13. CASE LeavePause
  BY <1>0, <1>13 DEF LeavePause
<1>14. CASE SendContinued
  BY <1>0, <1>14 DEF SendContinued
<1>15. CASE UseAfterClose
  BY <1>0, <1>15 DEF UseAfterClose
<1>16. CASE Accept
  BY <1>0, <1>16 DEF Accept
<1>17. CASE ReadMsg
  BY <1>0, <1>17 DEF ReadMsg
<1>18. CASE HandleConfigurationDone
  BY <1>0, <1>18 DEF HandleConfigurationDone
<1>19. CASE HandleSetBreakpoints
  BY <1>0, <1>19 DEF HandleSetBreakpoints
<1>20. CASE HandleStateless
  BY <1>0, <1>20 DEF HandleStateless
<1>21. CASE HandleStackTrace
  BY <1>0, <1>21 DEF HandleStackTrace
<1>22. CASE EndWalk
  BY <1>0, <1>22 DEF EndWalk
<1>23. CASE HandleContinue
  BY <1>0, <1>23 DEF HandleContinue
<1>24. ASSUME NEW m \in DOMAIN StepMode, HandleStep(m) PROVE RequestOK'
  BY <1>0, <1>24, StepModes DEF HandleStep
<1>25. CASE HandlePause
  BY <1>0, <1>25 DEF HandlePause
<1>26. CASE HandleDisconnect
  BY <1>0, <1>26 DEF HandleDisconnect
<1>27. CASE PostDisconnect
  BY <1>0, <1>27 DEF PostDisconnect
<1>28. CASE ReloadClose
  BY <1>0, <1>28 DEF ReloadClose
<1>29. CASE ReloadOutOfMemory
  BY <1>0, <1>29 DEF ReloadOutOfMemory
<1>30. CASE ReloadBuild
  BY <1>0, <1>30 DEF ReloadBuild
<1>31. CASE ReloadPauses
  BY <1>0, <1>31 DEF ReloadPauses
<1>32. CASE SelfPausedEnds
  BY <1>0, <1>32 DEF SelfPausedEnds
<1>33. CASE Loaded
  BY <1>0, <1>33 DEF Loaded
<1>34. CASE Reply
  BY <1>0, <1>34 DEF Reply
<1>35. CASE CloseClient
  BY <1>0, <1>35 DEF CloseClient
<1>36. CASE ThreadEnds
  BY <1>0, <1>36 DEF ThreadEnds
<1>37. CASE Connect
  BY <1>0, <1>37 DEF Connect
<1>38. CASE Receive
  BY <1>0, <1>38 DEF Receive
<1>39. ASSUME NEW r \in Requests, SendRequest(r) PROVE RequestOK'
  BY <1>0, <1>39 DEF SendRequest
<1>41. CASE ReloadRefused
  BY <1>0, <1>41 DEF ReloadRefused
<1>40. CASE UNCHANGED vars
  BY <1>0, <1>40 DEF vars
<1> QED BY <1>1, <1>2, <1>3, <1>4, <1>5, <1>6, <1>7, <1>8, <1>9, <1>10, <1>11,
           <1>12, <1>13, <1>14, <1>15, <1>16, <1>17, <1>18, <1>19, <1>20,
           <1>21, <1>22, <1>23, <1>24, <1>25, <1>26, <1>27, <1>28, <1>29,
           <1>30, <1>31, <1>32, <1>33, <1>34, <1>35, <1>36, <1>37, <1>38,
           <1>39, <1>40, <1>41
       DEF Next, CartThread, DapThread, Client

LEMMA OneRequestNext ==
  ASSUME DapInv, ~Pipelines, [Next]_vars PROVE OneRequest'
<1> USE DEF cartVars, luaVars, cfgVars, srvVars, cliVars, InLua, PauseStep,
            SrvStep, NewState, othersUnchanged, Types, Handling, Handlers,
            Stateless, OneRequest, RequestOK, Threads
<1>0. Types /\ Threads /\ OneRequest /\ RequestOK
  BY DEF DapInv
<1>1. CASE StartCart
  BY <1>0, <1>1 DEF StartCart
<1>2. CASE CallFn
  BY <1>0, <1>2 DEF CallFn
<1>3. CASE Shutdown
  BY <1>0, <1>3 DEF Shutdown
<1>4. CASE Join
  BY <1>0, <1>4 DEF Join
<1>5. CASE HookCall
  BY <1>0, <1>5 DEF HookCall
<1>6. CASE HookReturn
  BY <1>0, <1>6 DEF HookReturn
<1>7. CASE HookCount
  BY <1>0, <1>7 DEF HookCount
<1>8. ASSUME NEW l \in Lines, HookLine(l) PROVE OneRequest'
  BY <1>0, <1>8 DEF HookLine
<1>9. CASE EndOfCall
  BY <1>0, <1>9 DEF EndOfCall
<1>10. CASE EnterPause
  BY <1>0, <1>10 DEF EnterPause
<1>11. CASE SendStopped
  <2>1. Sent(Req("stopped")) /\ Req("stopped") \in Msgs /\ Req("stopped").cmd = "stopped"
        /\ "stopped" \in Events
    BY <1>11, EventsAreMsgs DEF SendStopped, Events, News
  <2>2. OneAnswer(toClient') /\ (NoAnswer(toClient) => NoAnswer(toClient'))
    BY <1>0, <2>1, SentToClient DEF Events, News
  <2> QED BY <1>0, <1>11, <2>2 DEF SendStopped
<1>12. CASE PollContinue
  BY <1>0, <1>12 DEF PollContinue
<1>13. CASE LeavePause
  BY <1>0, <1>13 DEF LeavePause
<1>14. CASE SendContinued
  <2>1. Sent(Req("continued")) /\ Req("continued") \in Msgs /\ Req("continued").cmd = "continued"
        /\ "continued" \in Events
    BY <1>14, EventsAreMsgs DEF SendContinued, Events, News
  <2>2. OneAnswer(toClient') /\ (NoAnswer(toClient) => NoAnswer(toClient'))
    BY <1>0, <2>1, SentToClient DEF Events, News
  <2> QED BY <1>0, <1>14, <2>2 DEF SendContinued
<1>15. CASE UseAfterClose
  BY <1>0, <1>15 DEF UseAfterClose
<1>16. CASE Accept
  BY <1>0, <1>16 DEF Accept
<1>17. CASE ReadMsg
  BY <1>0, <1>17 DEF ReadMsg
<1>18. CASE HandleConfigurationDone
  BY <1>0, <1>18 DEF HandleConfigurationDone
<1>19. CASE HandleSetBreakpoints
  BY <1>0, <1>19 DEF HandleSetBreakpoints
<1>20. CASE HandleStateless
  BY <1>0, <1>20 DEF HandleStateless
<1>21. CASE HandleStackTrace
  BY <1>0, <1>21 DEF HandleStackTrace
<1>22. CASE EndWalk
  BY <1>0, <1>22 DEF EndWalk
<1>23. CASE HandleContinue
  BY <1>0, <1>23 DEF HandleContinue
<1>24. ASSUME NEW m \in DOMAIN StepMode, HandleStep(m) PROVE OneRequest'
  BY <1>0, <1>24, StepModes DEF HandleStep
<1>25. CASE HandlePause
  BY <1>0, <1>25 DEF HandlePause
<1>26. CASE HandleDisconnect
  <2>1. Sent(req) /\ req \in Msgs /\ req.cmd = "disconnect" /\ NoAnswer(toClient)
    BY <1>0, <1>26 DEF HandleDisconnect, Types, OneRequest, RequestOK, Handlers, Handling
  <2>2. OneAnswer(toClient')
    BY <1>0, <2>1, SentToClient DEF Events, News
  <2> QED BY <1>0, <1>26, <2>2 DEF HandleDisconnect
<1>27. CASE PostDisconnect
  BY <1>0, <1>27 DEF PostDisconnect
<1>28. CASE ReloadClose
  BY <1>0, <1>28 DEF ReloadClose
<1>29. CASE ReloadOutOfMemory
  BY <1>0, <1>29 DEF ReloadOutOfMemory
<1>30. CASE ReloadBuild
  BY <1>0, <1>30 DEF ReloadBuild
<1>31. CASE ReloadPauses
  <2>1. Sent(Req("stopped")) /\ Req("stopped") \in Msgs /\ Req("stopped").cmd = "stopped"
        /\ "stopped" \in Events
    BY <1>31, EventsAreMsgs DEF ReloadPauses, Events, News
  <2>2. OneAnswer(toClient') /\ (NoAnswer(toClient) => NoAnswer(toClient'))
    BY <1>0, <2>1, SentToClient DEF Events, News
  <2> QED BY <1>0, <1>31, <2>2 DEF ReloadPauses
<1>32. CASE SelfPausedEnds
  <2>1. Sent(Req("continued")) /\ Req("continued") \in Msgs /\ Req("continued").cmd = "continued"
        /\ "continued" \in Events
    BY <1>32, EventsAreMsgs DEF SelfPausedEnds, Events, News
  <2>2. OneAnswer(toClient') /\ (NoAnswer(toClient) => NoAnswer(toClient'))
    BY <1>0, <2>1, SentToClient DEF Events, News
  <2> QED BY <1>0, <1>32, <2>2 DEF SelfPausedEnds
<1>33. CASE Loaded
  <2>1. OneAnswer(toClient')
    BY <1>0, <1>33, LoadedMsgs
  <2> QED BY <1>0, <1>33, <2>1 DEF Loaded
<1>34. CASE Reply
  <2> PICK m \in Msgs : /\ Sent(m) /\ m.cmd \in Handlers \ {"disconnect"}
                        /\ m.lines \subseteq bps \ {0}
    BY <1>0, <1>34, ReplyMsg
  <2>1. Sent(m) /\ m.cmd \notin News /\ NoAnswer(toClient)
    BY <1>0, <1>34 DEF Reply, News
  <2>2. OneAnswer(toClient')
    BY <1>0, <2>1, SentToClient DEF Events, News
  <2> QED BY <1>0, <1>34, <2>2 DEF Reply
<1>35. CASE CloseClient
  BY <1>0, <1>35 DEF CloseClient
<1>36. CASE ThreadEnds
  BY <1>0, <1>36 DEF ThreadEnds
<1>37. CASE Connect
  BY <1>0, <1>37 DEF Connect
<1>38. CASE Receive
  <2> PICK h : h = Head(toClient)
    OBVIOUS
  <2>1. toClient \in Seq(Msgs) /\ toClient # <<>> /\ toClient' = Tail(toClient)
    BY <1>0, <1>38 DEF Receive, Types
  <2>2. /\ OneAnswer(toClient')
        /\ NoAnswer(toClient) => NoAnswer(toClient') /\ h.cmd \in Events
        /\ h.cmd \notin Events => NoAnswer(toClient')
    BY <1>0, <2>1, TailMsg
  <2>3. CASE h.cmd \in Events
    BY <1>0, <1>38, <2>2, <2>3 DEF Receive, Events, News
  <2>4. CASE h.cmd \notin Events
    <3>1. waiting = 1 /\ toServer = <<>> /\ spc \notin Handling
      BY <1>0, <2>2, <2>4
    <3>2. waiting' = 0 /\ (link' = link \/ link' = "closed")
      BY <1>38, <2>4, <3>1 DEF Receive, Events, News
    <3> QED BY <1>0, <1>38, <2>2, <2>4, <3>1, <3>2 DEF Receive
  <2> QED BY <2>3, <2>4
<1>39. ASSUME NEW r \in Requests, SendRequest(r) PROVE OneRequest'
  <2>1. /\ spc \notin Handling /\ link = "on" /\ NoAnswer(toClient)
        /\ waiting' = 1 /\ toServer' # <<>> /\ Len(toServer') = 1 /\ toServer'[1] = r
        /\ r.cmd \in Handlers
    BY <1>0, <1>39, SendsOne
  <2> QED BY <1>0, <1>39, <2>1 DEF SendRequest
<1>41. CASE ReloadRefused
  BY <1>0, <1>41 DEF ReloadRefused
<1>40. CASE UNCHANGED vars
  BY <1>0, <1>40 DEF vars
<1> QED BY <1>1, <1>2, <1>3, <1>4, <1>5, <1>6, <1>7, <1>8, <1>9, <1>10, <1>11,
           <1>12, <1>13, <1>14, <1>15, <1>16, <1>17, <1>18, <1>19, <1>20,
           <1>21, <1>22, <1>23, <1>24, <1>25, <1>26, <1>27, <1>28, <1>29,
           <1>30, <1>31, <1>32, <1>33, <1>34, <1>35, <1>36, <1>37, <1>38,
           <1>39, <1>40, <1>41
       DEF Next, CartThread, DapThread, Client

LEMMA PausedInNext ==
  ASSUME DapInv, ~Pipelines, [Next]_vars PROVE PausedIn'
<1> USE DEF cartVars, luaVars, cfgVars, srvVars, cliVars, InLua, PauseStep,
            SrvStep, NewState, othersUnchanged, Types, PauseStates, Handling,
            Handlers, Stateless, OneRequest, PausedIn, Threads, Flight,
            InFlight, Held
<1>0. Types /\ Threads /\ OneRequest /\ RequestOK /\ PausedIn /\ Flight
  BY DEF DapInv
<1>1. CASE StartCart
  BY <1>0, <1>1 DEF StartCart
<1>2. CASE CallFn
  BY <1>0, <1>2 DEF CallFn
<1>3. CASE Shutdown
  BY <1>0, <1>3 DEF Shutdown
<1>4. CASE Join
  BY <1>0, <1>4 DEF Join
<1>5. CASE HookCall
  BY <1>0, <1>5 DEF HookCall
<1>6. CASE HookReturn
  BY <1>0, <1>6 DEF HookReturn
<1>7. CASE HookCount
  BY <1>0, <1>7 DEF HookCount
<1>8. ASSUME NEW l \in Lines, HookLine(l) PROVE PausedIn'
  BY <1>0, <1>8 DEF HookLine
<1>9. CASE EndOfCall
  BY <1>0, <1>9 DEF EndOfCall
<1>10. CASE EnterPause
  BY <1>0, <1>10 DEF EnterPause
<1>11. CASE SendStopped
  BY <1>0, <1>11 DEF SendStopped
<1>12. CASE PollContinue
  BY <1>0, <1>12 DEF PollContinue
<1>13. CASE LeavePause
  BY <1>0, <1>13 DEF LeavePause
<1>14. CASE SendContinued
  BY <1>0, <1>14 DEF SendContinued
<1>15. CASE UseAfterClose
  BY <1>0, <1>15 DEF UseAfterClose
<1>16. CASE Accept
  BY <1>0, <1>16 DEF Accept
<1>17. CASE ReadMsg
  BY <1>0, <1>17 DEF ReadMsg
<1>18. CASE HandleConfigurationDone
  BY <1>0, <1>18 DEF HandleConfigurationDone
<1>19. CASE HandleSetBreakpoints
  BY <1>0, <1>19 DEF HandleSetBreakpoints
<1>20. CASE HandleStateless
  BY <1>0, <1>20 DEF HandleStateless
<1>21. CASE HandleStackTrace
  BY <1>0, <1>21 DEF HandleStackTrace
<1>22. CASE EndWalk
  BY <1>0, <1>22 DEF EndWalk
<1>23. CASE HandleContinue
  BY <1>0, <1>23 DEF HandleContinue
<1>24. ASSUME NEW m \in DOMAIN StepMode, HandleStep(m) PROVE PausedIn'
  BY <1>0, <1>24, StepModes DEF HandleStep
<1>25. CASE HandlePause
  BY <1>0, <1>25 DEF HandlePause
<1>26. CASE HandleDisconnect
  BY <1>0, <1>26 DEF HandleDisconnect
<1>27. CASE PostDisconnect
  BY <1>0, <1>27 DEF PostDisconnect
<1>28. CASE ReloadClose
  BY <1>0, <1>28 DEF ReloadClose
<1>29. CASE ReloadOutOfMemory
  BY <1>0, <1>29 DEF ReloadOutOfMemory
<1>30. CASE ReloadBuild
  BY <1>0, <1>30 DEF ReloadBuild
<1>31. CASE ReloadPauses
  BY <1>0, <1>31 DEF ReloadPauses
<1>32. CASE SelfPausedEnds
  BY <1>0, <1>32 DEF SelfPausedEnds
<1>33. CASE Loaded
  BY <1>0, <1>33 DEF Loaded
<1>34. CASE Reply
  BY <1>0, <1>34 DEF Reply
<1>35. CASE CloseClient
  BY <1>0, <1>35 DEF CloseClient
<1>36. CASE ThreadEnds
  BY <1>0, <1>36 DEF ThreadEnds
<1>37. CASE Connect
  BY <1>0, <1>37 DEF Connect
<1>38. CASE Receive
  BY <1>0, <1>38 DEF Receive
<1>39. ASSUME NEW r \in Requests, SendRequest(r) PROVE PausedIn'
  BY <1>0, <1>39 DEF SendRequest
<1>41. CASE ReloadRefused
  BY <1>0, <1>41 DEF ReloadRefused
<1>40. CASE UNCHANGED vars
  BY <1>0, <1>40 DEF vars
<1> QED BY <1>1, <1>2, <1>3, <1>4, <1>5, <1>6, <1>7, <1>8, <1>9, <1>10, <1>11,
           <1>12, <1>13, <1>14, <1>15, <1>16, <1>17, <1>18, <1>19, <1>20,
           <1>21, <1>22, <1>23, <1>24, <1>25, <1>26, <1>27, <1>28, <1>29,
           <1>30, <1>31, <1>32, <1>33, <1>34, <1>35, <1>36, <1>37, <1>38,
           <1>39, <1>40, <1>41
       DEF Next, CartThread, DapThread, Client

LEMMA FlightNext ==
  ASSUME DapInv, ~Pipelines, [Next]_vars PROVE Flight'
<1> USE DEF cartVars, luaVars, cfgVars, srvVars, cliVars, InLua, PauseStep,
            SrvStep, NewState, othersUnchanged, Types, Handling, Handlers,
            Stateless, OneRequest, RequestOK, Threads, Flight, InFlight, Held,
            Belief, Resumes, StepMode
<1>0. Types /\ Threads /\ OneRequest /\ RequestOK /\ Belief /\ Flight
  BY DEF DapInv
<1>1. CASE StartCart
  BY <1>0, <1>1 DEF StartCart
<1>2. CASE CallFn
  BY <1>0, <1>2 DEF CallFn
<1>3. CASE Shutdown
  BY <1>0, <1>3 DEF Shutdown
<1>4. CASE Join
  BY <1>0, <1>4 DEF Join
<1>5. CASE HookCall
  BY <1>0, <1>5 DEF HookCall
<1>6. CASE HookReturn
  BY <1>0, <1>6 DEF HookReturn
<1>7. CASE HookCount
  BY <1>0, <1>7 DEF HookCount
<1>8. ASSUME NEW l \in Lines, HookLine(l) PROVE Flight'
  BY <1>0, <1>8 DEF HookLine
<1>9. CASE EndOfCall
  BY <1>0, <1>9 DEF EndOfCall
<1>10. CASE EnterPause
  BY <1>0, <1>10 DEF EnterPause
<1>11. CASE SendStopped
  BY <1>0, <1>11 DEF SendStopped
<1>12. CASE PollContinue
  BY <1>0, <1>12 DEF PollContinue
<1>13. CASE LeavePause
  BY <1>0, <1>13 DEF LeavePause
<1>14. CASE SendContinued
  BY <1>0, <1>14 DEF SendContinued
<1>15. CASE UseAfterClose
  BY <1>0, <1>15 DEF UseAfterClose
<1>16. CASE Accept
  BY <1>0, <1>16 DEF Accept
<1>17. CASE ReadMsg
  BY <1>0, <1>17 DEF ReadMsg
<1>18. CASE HandleConfigurationDone
  BY <1>0, <1>18 DEF HandleConfigurationDone
<1>19. CASE HandleSetBreakpoints
  BY <1>0, <1>19 DEF HandleSetBreakpoints
<1>20. CASE HandleStateless
  BY <1>0, <1>20 DEF HandleStateless
<1>21. CASE HandleStackTrace
  BY <1>0, <1>21 DEF HandleStackTrace
<1>22. CASE EndWalk
  BY <1>0, <1>22 DEF EndWalk
<1>23. CASE HandleContinue
  BY <1>0, <1>23 DEF HandleContinue
<1>24. ASSUME NEW m \in DOMAIN StepMode, HandleStep(m) PROVE Flight'
  BY <1>0, <1>24 DEF HandleStep
<1>25. CASE HandlePause
  BY <1>0, <1>25 DEF HandlePause
<1>26. CASE HandleDisconnect
  BY <1>0, <1>26 DEF HandleDisconnect
<1>27. CASE PostDisconnect
  BY <1>0, <1>27 DEF PostDisconnect
<1>28. CASE ReloadClose
  BY <1>0, <1>28 DEF ReloadClose
<1>29. CASE ReloadOutOfMemory
  BY <1>0, <1>29 DEF ReloadOutOfMemory
<1>30. CASE ReloadBuild
  BY <1>0, <1>30 DEF ReloadBuild
<1>31. CASE ReloadPauses
  BY <1>0, <1>31 DEF ReloadPauses
<1>32. CASE SelfPausedEnds
  BY <1>0, <1>32 DEF SelfPausedEnds
<1>33. CASE Loaded
  BY <1>0, <1>33 DEF Loaded
<1>34. CASE Reply
  BY <1>0, <1>34 DEF Reply
<1>35. CASE CloseClient
  BY <1>0, <1>35 DEF CloseClient
<1>36. CASE ThreadEnds
  BY <1>0, <1>36 DEF ThreadEnds
<1>37. CASE Connect
  BY <1>0, <1>37 DEF Connect
<1>38. CASE Receive
  <2> PICK h : h = Head(toClient)
    OBVIOUS
  <2>1. toClient \in Seq(Msgs) /\ toClient # <<>> /\ toClient' = Tail(toClient)
    BY <1>0, <1>38 DEF Receive, Types
  <2>2. Quiet(toClient) => Quiet(toClient') /\ h.cmd \notin News
    BY <2>1, TailMsg
  <2>3. Quiet(toClient) => view' = view
    BY <1>38, <2>2 DEF Receive, News
  <2> QED BY <1>0, <1>38, <2>2, <2>3 DEF Receive
<1>39. ASSUME NEW r \in Requests, SendRequest(r) PROVE Flight'
  <2>1. /\ spc \notin Handling /\ link = "on" /\ toServer' # <<>> /\ toServer'[1] = r
        /\ r.cmd \in Resumes \cup {"stackTrace"} => view = "stopped"
    BY <1>0, <1>39, SendsOne
  <2>2. ASSUME view = "stopped", running PROVE cpc = "poll" /\ ~contPending /\ Quiet(toClient)
    BY <1>0, <2>1, <2>2
  <2>3. /\ view' = IF r.cmd \in Resumes THEN "resuming" ELSE view
        /\ spc' = spc /\ running' = running /\ cpc' = cpc
        /\ contPending' = contPending /\ toClient' = toClient
    BY <1>39 DEF SendRequest
  <2>4. /\ InFlight(Resumes)' => running /\ r.cmd \in Resumes
        /\ InFlight({"stackTrace", "walk"})' => running /\ r.cmd = "stackTrace"
    <3>1. r.cmd # "walk"
      BY <1>0, <1>39, SendsOne
    <3> QED BY <2>1, <2>3, <3>1
  <2> QED BY <2>1, <2>2, <2>3, <2>4
<1>41. CASE ReloadRefused
  BY <1>0, <1>41 DEF ReloadRefused
<1>40. CASE UNCHANGED vars
  BY <1>0, <1>40 DEF vars
<1> QED BY <1>1, <1>2, <1>3, <1>4, <1>5, <1>6, <1>7, <1>8, <1>9, <1>10, <1>11,
           <1>12, <1>13, <1>14, <1>15, <1>16, <1>17, <1>18, <1>19, <1>20,
           <1>21, <1>22, <1>23, <1>24, <1>25, <1>26, <1>27, <1>28, <1>29,
           <1>30, <1>31, <1>32, <1>33, <1>34, <1>35, <1>36, <1>37, <1>38,
           <1>39, <1>40, <1>41
       DEF Next, CartThread, DapThread, Client

LEMMA BeliefNext ==
  ASSUME DapInv, ~Pipelines, [Next]_vars PROVE Belief'
<1> USE DEF cartVars, luaVars, cfgVars, srvVars, cliVars, InLua, PauseStep,
            SrvStep, NewState, othersUnchanged, Types, Handling, Handlers,
            Stateless, OneRequest, RequestOK, Threads, Flight, InFlight, Held,
            Belief, Resumes, StepMode
<1>0. Types /\ Threads /\ OneRequest /\ RequestOK /\ Belief /\ Flight
  BY DEF DapInv
<1>1. CASE StartCart
  BY <1>0, <1>1 DEF StartCart
<1>2. CASE CallFn
  BY <1>0, <1>2 DEF CallFn
<1>3. CASE Shutdown
  BY <1>0, <1>3 DEF Shutdown
<1>4. CASE Join
  BY <1>0, <1>4 DEF Join
<1>5. CASE HookCall
  BY <1>0, <1>5 DEF HookCall
<1>6. CASE HookReturn
  BY <1>0, <1>6 DEF HookReturn
<1>7. CASE HookCount
  BY <1>0, <1>7 DEF HookCount
<1>8. ASSUME NEW l \in Lines, HookLine(l) PROVE Belief'
  BY <1>0, <1>8 DEF HookLine
<1>9. CASE EndOfCall
  BY <1>0, <1>9 DEF EndOfCall
<1>10. CASE EnterPause
  BY <1>0, <1>10 DEF EnterPause
<1>11. CASE SendStopped
  <2>1. Sent(Req("stopped")) /\ Req("stopped") \in Msgs /\ Req("stopped").cmd = "stopped"
        /\ "stopped" \in Events
    BY <1>11, EventsAreMsgs DEF SendStopped, Events, News
  <2>2. attached /\ (Quiet(toClient) \/ Continues(toClient)) => Stops(toClient')
    BY <1>0, <2>1, SentToClient DEF Events, News
  <2>3. (running /\ link = "on") => attached
    BY <1>0, <1>11 DEF SendStopped, Untouched, PauseStates
  <2> QED BY <1>0, <1>11, <2>2, <2>3 DEF SendStopped
<1>12. CASE PollContinue
  BY <1>0, <1>12 DEF PollContinue
<1>13. CASE LeavePause
  BY <1>0, <1>13 DEF LeavePause
<1>14. CASE SendContinued
  <2>1. Sent(Req("continued")) /\ Req("continued") \in Msgs /\ Req("continued").cmd = "continued"
        /\ "continued" \in Events
    BY <1>14, EventsAreMsgs DEF SendContinued, Events, News
  <2>2. attached /\ Quiet(toClient) => Continues(toClient')
    BY <1>0, <2>1, SentToClient DEF Events, News
  <2>3. (running /\ link = "on") => attached
    BY <1>0, <1>14 DEF SendContinued, Untouched, PauseStates
  <2> QED BY <1>0, <1>14, <2>2, <2>3 DEF SendContinued
<1>15. CASE UseAfterClose
  BY <1>0, <1>15 DEF UseAfterClose
<1>16. CASE Accept
  BY <1>0, <1>16 DEF Accept
<1>17. CASE ReadMsg
  BY <1>0, <1>17 DEF ReadMsg
<1>18. CASE HandleConfigurationDone
  BY <1>0, <1>18 DEF HandleConfigurationDone
<1>19. CASE HandleSetBreakpoints
  BY <1>0, <1>19 DEF HandleSetBreakpoints
<1>20. CASE HandleStateless
  BY <1>0, <1>20 DEF HandleStateless
<1>21. CASE HandleStackTrace
  BY <1>0, <1>21 DEF HandleStackTrace
<1>22. CASE EndWalk
  BY <1>0, <1>22 DEF EndWalk
<1>23. CASE HandleContinue
  BY <1>0, <1>23 DEF HandleContinue
<1>24. ASSUME NEW m \in DOMAIN StepMode, HandleStep(m) PROVE Belief'
  BY <1>0, <1>24 DEF HandleStep
<1>25. CASE HandlePause
  BY <1>0, <1>25 DEF HandlePause
<1>26. CASE HandleDisconnect
  BY <1>0, <1>26 DEF HandleDisconnect
<1>27. CASE PostDisconnect
  BY <1>0, <1>27 DEF PostDisconnect
<1>28. CASE ReloadClose
  BY <1>0, <1>28 DEF ReloadClose
<1>29. CASE ReloadOutOfMemory
  BY <1>0, <1>29 DEF ReloadOutOfMemory
<1>30. CASE ReloadBuild
  BY <1>0, <1>30 DEF ReloadBuild
<1>31. CASE ReloadPauses
  BY <1>0, <1>31 DEF ReloadPauses
<1>32. CASE SelfPausedEnds
  BY <1>0, <1>32 DEF SelfPausedEnds
<1>33. CASE Loaded
  <2>1. /\ Quiet(toClient) => Quiet(toClient')
        /\ Continues(toClient) => Continues(toClient')
        /\ Stops(toClient) => Stops(toClient')
    BY <1>0, <1>33, LoadedMsgs
  <2> QED BY <1>0, <1>33, <2>1 DEF Loaded
<1>34. CASE Reply
  <2> PICK m \in Msgs : /\ Sent(m) /\ m.cmd \in Handlers \ {"disconnect"}
                        /\ m.lines \subseteq bps \ {0}
    BY <1>0, <1>34, ReplyMsg
  <2>1. Sent(m) /\ m.cmd \notin News /\ NoAnswer(toClient)
    BY <1>0, <1>34 DEF Reply, News
  <2>2. /\ Quiet(toClient) => Quiet(toClient')
        /\ Continues(toClient) => Continues(toClient')
        /\ Stops(toClient) => Stops(toClient')
    BY <1>0, <2>1, SentToClient DEF Events, News
  <2> QED BY <1>0, <1>34, <2>2 DEF Reply
<1>35. CASE CloseClient
  BY <1>0, <1>35 DEF CloseClient
<1>36. CASE ThreadEnds
  BY <1>0, <1>36 DEF ThreadEnds
<1>37. CASE Connect
  <2>1. Quiet(<<>>)
    BY DEF Quiet
  <2>2. running => cpc \notin PauseStates
    BY <1>0, <1>37 DEF Connect, Untouched
  <2> QED BY <1>0, <1>37, <2>1, <2>2 DEF Connect, PauseStates
<1>38. CASE Receive
  <2> PICK h : h = Head(toClient)
    OBVIOUS
  <2>1. toClient \in Seq(Msgs) /\ toClient # <<>> /\ toClient' = Tail(toClient)
    BY <1>0, <1>38 DEF Receive, Types
  <2>2. /\ Quiet(toClient) => Quiet(toClient') /\ h.cmd \notin News
        /\ Continues(toClient) => /\ h.cmd # "stopped"
                                  /\ h.cmd = "continued" => Quiet(toClient')
                                  /\ h.cmd # "continued" => Continues(toClient')
        /\ Stops(toClient) => IF h.cmd = "stopped" THEN Quiet(toClient') ELSE Stops(toClient')
    BY <2>1, TailMsg
  <2>3. view' = CASE h.cmd = "stopped" -> "stopped"
                  [] h.cmd = "continued" -> "running"
                  [] OTHER -> view
    BY <1>38 DEF Receive
  <2>4. link' = "on" => link = "on"
    BY <1>38 DEF Receive
  <2> QED BY <1>0, <1>38, <2>2, <2>3, <2>4 DEF Receive, News
<1>39. ASSUME NEW r \in Requests, SendRequest(r) PROVE Belief'
  <2>1. /\ spc \notin Handling /\ link = "on" /\ toServer' # <<>> /\ toServer'[1] = r
        /\ toServer = <<>>
        /\ r.cmd \in Resumes \cup {"stackTrace"} => view = "stopped"
    BY <1>0, <1>39, SendsOne
  <2>2. view' = IF r.cmd \in Resumes THEN "resuming" ELSE view
    BY <1>39 DEF SendRequest
  <2>3. ~InFlight(Resumes) /\ (running /\ r.cmd \in Resumes => InFlight(Resumes)')
    BY <1>0, <1>39, <2>1 DEF SendRequest
  <2> HIDE DEF InFlight
  <2> QED BY <1>0, <1>39, <2>1, <2>2, <2>3 DEF SendRequest
<1>41. CASE ReloadRefused
  BY <1>0, <1>41 DEF ReloadRefused
<1>40. CASE UNCHANGED vars
  BY <1>0, <1>40 DEF vars
<1> QED BY <1>1, <1>2, <1>3, <1>4, <1>5, <1>6, <1>7, <1>8, <1>9, <1>10, <1>11,
           <1>12, <1>13, <1>14, <1>15, <1>16, <1>17, <1>18, <1>19, <1>20,
           <1>21, <1>22, <1>23, <1>24, <1>25, <1>26, <1>27, <1>28, <1>29,
           <1>30, <1>31, <1>32, <1>33, <1>34, <1>35, <1>36, <1>37, <1>38,
           <1>39, <1>40, <1>41
       DEF Next, CartThread, DapThread, Client

LEMMA StepAskedNext ==
  ASSUME DapInv, ~Pipelines, [Next]_vars PROVE StepAsked'
<1> USE DEF cartVars, luaVars, cfgVars, srvVars, cliVars, InLua, PauseStep,
            SrvStep, NewState, othersUnchanged, Types, Handling, Handlers,
            Stateless, OneRequest, RequestOK, Threads, Flight, InFlight, Held,
            Belief, Resumes, StepAsked, PausedIn, PauseStates, StepMode
<1>0. Types /\ Threads /\ OneRequest /\ RequestOK /\ Belief /\ Flight /\ StepAsked /\ PausedIn
  BY DEF DapInv
<1>1. CASE StartCart
  BY <1>0, <1>1 DEF StartCart
<1>2. CASE CallFn
  BY <1>0, <1>2 DEF CallFn
<1>3. CASE Shutdown
  BY <1>0, <1>3 DEF Shutdown
<1>4. CASE Join
  BY <1>0, <1>4 DEF Join
<1>5. CASE HookCall
  BY <1>0, <1>5 DEF HookCall
<1>6. CASE HookReturn
  BY <1>0, <1>6 DEF HookReturn
<1>7. CASE HookCount
  BY <1>0, <1>7 DEF HookCount
<1>8. ASSUME NEW l \in Lines, HookLine(l) PROVE StepAsked'
  BY <1>0, <1>8 DEF HookLine
<1>9. CASE EndOfCall
  BY <1>0, <1>9 DEF EndOfCall
<1>10. CASE EnterPause
  BY <1>0, <1>10 DEF EnterPause
<1>11. CASE SendStopped
  BY <1>0, <1>11 DEF SendStopped
<1>12. CASE PollContinue
  BY <1>0, <1>12 DEF PollContinue
<1>13. CASE LeavePause
  BY <1>0, <1>13 DEF LeavePause
<1>14. CASE SendContinued
  BY <1>0, <1>14 DEF SendContinued
<1>15. CASE UseAfterClose
  BY <1>0, <1>15 DEF UseAfterClose
<1>16. CASE Accept
  BY <1>0, <1>16 DEF Accept
<1>17. CASE ReadMsg
  BY <1>0, <1>17 DEF ReadMsg
<1>18. CASE HandleConfigurationDone
  BY <1>0, <1>18 DEF HandleConfigurationDone
<1>19. CASE HandleSetBreakpoints
  BY <1>0, <1>19 DEF HandleSetBreakpoints
<1>20. CASE HandleStateless
  BY <1>0, <1>20 DEF HandleStateless
<1>21. CASE HandleStackTrace
  BY <1>0, <1>21 DEF HandleStackTrace
<1>22. CASE EndWalk
  BY <1>0, <1>22 DEF EndWalk
<1>23. CASE HandleContinue
  BY <1>0, <1>23 DEF HandleContinue
<1>24. ASSUME NEW m \in DOMAIN StepMode, HandleStep(m) PROVE StepAsked'
  <2>1. /\ m \in {"next", "stepIn", "stepOut"} /\ spc = m /\ spc' = "reply"
        /\ toServer = <<>> /\ toServer' = <<>>
        /\ stepMode' = StepMode[m] /\ baseDepth' = BaseDepthNow /\ asked' = asked
    BY <1>0, <1>24, StepModes DEF HandleStep
  <2>2. cpc = "poll" /\ pausedL = cartL /\ cartL # 0
    BY <1>0, <2>1
  <2>3. asked = [mode |-> StepMode[m], from |-> depth]
    BY <1>0, <2>1
  <2>4. baseDepth' = depth
    BY <2>1, <2>2 DEF BaseDepthNow
  <2> QED BY <2>1, <2>3, <2>4
<1>25. CASE HandlePause
  BY <1>0, <1>25 DEF HandlePause
<1>26. CASE HandleDisconnect
  BY <1>0, <1>26 DEF HandleDisconnect
<1>27. CASE PostDisconnect
  BY <1>0, <1>27 DEF PostDisconnect
<1>28. CASE ReloadClose
  BY <1>0, <1>28 DEF ReloadClose
<1>29. CASE ReloadOutOfMemory
  BY <1>0, <1>29 DEF ReloadOutOfMemory
<1>30. CASE ReloadBuild
  BY <1>0, <1>30 DEF ReloadBuild
<1>31. CASE ReloadPauses
  BY <1>0, <1>31 DEF ReloadPauses, ChunkStops
<1>32. CASE SelfPausedEnds
  BY <1>0, <1>32 DEF SelfPausedEnds
<1>33. CASE Loaded
  BY <1>0, <1>33 DEF Loaded
<1>34. CASE Reply
  BY <1>0, <1>34 DEF Reply
<1>35. CASE CloseClient
  BY <1>0, <1>35 DEF CloseClient
<1>36. CASE ThreadEnds
  BY <1>0, <1>36 DEF ThreadEnds
<1>37. CASE Connect
  BY <1>0, <1>37 DEF Connect
<1>38. CASE Receive
  BY <1>0, <1>38 DEF Receive
<1>39. ASSUME NEW r \in Requests, SendRequest(r) PROVE StepAsked'
  <2>1. /\ spc \notin Handling /\ toServer' # <<>> /\ toServer'[1] = r /\ toServer = <<>>
    BY <1>0, <1>39, SendsOne
  <2>2. /\ asked' = IF r.cmd \in DOMAIN StepMode
                    THEN [mode |-> StepMode[r.cmd], from |-> depth] ELSE asked
        /\ spc' = spc /\ running' = running /\ depth' = depth
        /\ stepMode' = stepMode /\ baseDepth' = baseDepth
    BY <1>39 DEF SendRequest
  <2>3. spc \notin DOMAIN StepMode
    BY <2>1, StepModes
  <2> HIDE DEF StepMode
  <2> QED BY <1>0, <2>1, <2>2, <2>3
<1>41. CASE ReloadRefused
  BY <1>0, <1>41 DEF ReloadRefused
<1>40. CASE UNCHANGED vars
  BY <1>0, <1>40 DEF vars
<1> QED BY <1>1, <1>2, <1>3, <1>4, <1>5, <1>6, <1>7, <1>8, <1>9, <1>10, <1>11,
           <1>12, <1>13, <1>14, <1>15, <1>16, <1>17, <1>18, <1>19, <1>20,
           <1>21, <1>22, <1>23, <1>24, <1>25, <1>26, <1>27, <1>28, <1>29,
           <1>30, <1>31, <1>32, <1>33, <1>34, <1>35, <1>36, <1>37, <1>38,
           <1>39, <1>40, <1>41
       DEF Next, CartThread, DapThread, Client

LEMMA StepEndsWhereAskedNext ==
  ASSUME DapInv, ~Pipelines, [Next]_vars PROVE StepEndsWhereAsked'
<1> USE DEF cartVars, luaVars, cfgVars, srvVars, cliVars, InLua, PauseStep,
            SrvStep, NewState, othersUnchanged, Types, Handling, Handlers,
            Stateless, OneRequest, RequestOK, Threads, Flight, InFlight, Held,
            Belief, Resumes, StepAsked, PausedIn, PauseStates, StepMode,
            StepEndsWhereAsked, StepDue
<1>0. Types /\ Threads /\ OneRequest /\ RequestOK /\ Belief /\ Flight /\ StepAsked /\ StepEndsWhereAsked
  BY DEF DapInv
<1>1. CASE StartCart
  BY <1>0, <1>1 DEF StartCart
<1>2. CASE CallFn
  BY <1>0, <1>2 DEF CallFn
<1>3. CASE Shutdown
  BY <1>0, <1>3 DEF Shutdown
<1>4. CASE Join
  BY <1>0, <1>4 DEF Join
<1>5. CASE HookCall
  BY <1>0, <1>5 DEF HookCall
<1>6. CASE HookReturn
  BY <1>0, <1>6 DEF HookReturn
<1>7. CASE HookCount
  BY <1>0, <1>7 DEF HookCount
<1>8. ASSUME NEW l \in Lines, HookLine(l) PROVE StepEndsWhereAsked'
  BY <1>0, <1>8 DEF HookLine
<1>9. CASE EndOfCall
  BY <1>0, <1>9 DEF EndOfCall
<1>10. CASE EnterPause
  BY <1>0, <1>10 DEF EnterPause
<1>11. CASE SendStopped
  BY <1>0, <1>11 DEF SendStopped
<1>12. CASE PollContinue
  BY <1>0, <1>12 DEF PollContinue
<1>13. CASE LeavePause
  BY <1>0, <1>13 DEF LeavePause
<1>14. CASE SendContinued
  BY <1>0, <1>14 DEF SendContinued
<1>15. CASE UseAfterClose
  BY <1>0, <1>15 DEF UseAfterClose
<1>16. CASE Accept
  BY <1>0, <1>16 DEF Accept
<1>17. CASE ReadMsg
  BY <1>0, <1>17 DEF ReadMsg
<1>18. CASE HandleConfigurationDone
  BY <1>0, <1>18 DEF HandleConfigurationDone
<1>19. CASE HandleSetBreakpoints
  BY <1>0, <1>19 DEF HandleSetBreakpoints
<1>20. CASE HandleStateless
  BY <1>0, <1>20 DEF HandleStateless
<1>21. CASE HandleStackTrace
  BY <1>0, <1>21 DEF HandleStackTrace
<1>22. CASE EndWalk
  BY <1>0, <1>22 DEF EndWalk
<1>23. CASE HandleContinue
  BY <1>0, <1>23 DEF HandleContinue
<1>24. ASSUME NEW m \in DOMAIN StepMode, HandleStep(m) PROVE StepEndsWhereAsked'
  BY <1>0, <1>24 DEF HandleStep
<1>25. CASE HandlePause
  BY <1>0, <1>25 DEF HandlePause
<1>26. CASE HandleDisconnect
  BY <1>0, <1>26 DEF HandleDisconnect
<1>27. CASE PostDisconnect
  BY <1>0, <1>27 DEF PostDisconnect
<1>28. CASE ReloadClose
  BY <1>0, <1>28 DEF ReloadClose
<1>29. CASE ReloadOutOfMemory
  BY <1>0, <1>29 DEF ReloadOutOfMemory
<1>30. CASE ReloadBuild
  BY <1>0, <1>30 DEF ReloadBuild
<1>31. CASE ReloadPauses
  BY <1>0, <1>31 DEF ReloadPauses
<1>32. CASE SelfPausedEnds
  BY <1>0, <1>32 DEF SelfPausedEnds
<1>33. CASE Loaded
  BY <1>0, <1>33 DEF Loaded
<1>34. CASE Reply
  BY <1>0, <1>34 DEF Reply
<1>35. CASE CloseClient
  BY <1>0, <1>35 DEF CloseClient
<1>36. CASE ThreadEnds
  BY <1>0, <1>36 DEF ThreadEnds
<1>37. CASE Connect
  BY <1>0, <1>37 DEF Connect
<1>38. CASE Receive
  BY <1>0, <1>38 DEF Receive
<1>39. ASSUME NEW r \in Requests, SendRequest(r) PROVE StepEndsWhereAsked'
  <2>1. r.cmd \in DOMAIN StepMode => view = "stopped"
    BY <1>0, <1>39, SendsOne
  <2>2. r.cmd \in DOMAIN StepMode => cpc # "enter"
    BY <1>0, <1>39, <2>1, SendsOne
  <2> QED BY <1>0, <1>39, <2>2 DEF SendRequest
<1>41. CASE ReloadRefused
  BY <1>0, <1>41 DEF ReloadRefused
<1>40. CASE UNCHANGED vars
  BY <1>0, <1>40 DEF vars
<1> QED BY <1>1, <1>2, <1>3, <1>4, <1>5, <1>6, <1>7, <1>8, <1>9, <1>10, <1>11,
           <1>12, <1>13, <1>14, <1>15, <1>16, <1>17, <1>18, <1>19, <1>20,
           <1>21, <1>22, <1>23, <1>24, <1>25, <1>26, <1>27, <1>28, <1>29,
           <1>30, <1>31, <1>32, <1>33, <1>34, <1>35, <1>36, <1>37, <1>38,
           <1>39, <1>40, <1>41
       DEF Next, CartThread, DapThread, Client

LEMMA AckedNext ==
  ASSUME DapInv, ~Pipelines, [Next]_vars PROVE Acked'
<1> USE DEF cartVars, luaVars, cfgVars, srvVars, cliVars, InLua, PauseStep,
            SrvStep, NewState, othersUnchanged, Types, OneRequest, RequestOK,
            Threads, Acked, Handling, Handlers, Stateless
<1>0. Types /\ Threads /\ OneRequest /\ RequestOK /\ Acked
  BY DEF DapInv
<1>1. CASE StartCart
  BY <1>0, <1>1 DEF StartCart
<1>2. CASE CallFn
  BY <1>0, <1>2 DEF CallFn
<1>3. CASE Shutdown
  BY <1>0, <1>3 DEF Shutdown
<1>4. CASE Join
  BY <1>0, <1>4 DEF Join
<1>5. CASE HookCall
  BY <1>0, <1>5 DEF HookCall
<1>6. CASE HookReturn
  BY <1>0, <1>6 DEF HookReturn
<1>7. CASE HookCount
  BY <1>0, <1>7 DEF HookCount
<1>8. ASSUME NEW l \in Lines, HookLine(l) PROVE Acked'
  BY <1>0, <1>8 DEF HookLine
<1>9. CASE EndOfCall
  BY <1>0, <1>9 DEF EndOfCall
<1>10. CASE EnterPause
  BY <1>0, <1>10 DEF EnterPause
<1>11. CASE SendStopped
  <2>1. Sent(Req("stopped")) /\ Req("stopped") \in Msgs /\ Req("stopped").cmd = "stopped"
        /\ "stopped" \in Events
    BY <1>11, EventsAreMsgs DEF SendStopped, Events, News
  <2>2. \A B : Verified(toClient, B) => Verified(toClient', B)
    BY <1>0, <2>1, SentToClient DEF Events, News
  <2> QED BY <1>0, <1>11, <2>2 DEF SendStopped
<1>12. CASE PollContinue
  BY <1>0, <1>12 DEF PollContinue
<1>13. CASE LeavePause
  BY <1>0, <1>13 DEF LeavePause
<1>14. CASE SendContinued
  <2>1. Sent(Req("continued")) /\ Req("continued") \in Msgs /\ Req("continued").cmd = "continued"
        /\ "continued" \in Events
    BY <1>14, EventsAreMsgs DEF SendContinued, Events, News
  <2>2. \A B : Verified(toClient, B) => Verified(toClient', B)
    BY <1>0, <2>1, SentToClient DEF Events, News
  <2> QED BY <1>0, <1>14, <2>2 DEF SendContinued
<1>15. CASE UseAfterClose
  BY <1>0, <1>15 DEF UseAfterClose
<1>16. CASE Accept
  BY <1>0, <1>16 DEF Accept
<1>17. CASE ReadMsg
  BY <1>0, <1>17 DEF ReadMsg
<1>18. CASE HandleConfigurationDone
  BY <1>0, <1>18 DEF HandleConfigurationDone
<1>19. CASE HandleSetBreakpoints
  <2>1. acked = {} /\ NoAnswer(toClient)
    BY <1>0, <1>19 DEF HandleSetBreakpoints
  <2>2. \A B : Verified(toClient, B)
    BY <2>1 DEF NoAnswer, Verified, Events, News
  <2> QED BY <1>0, <1>19, <2>1, <2>2 DEF HandleSetBreakpoints
<1>20. CASE HandleStateless
  BY <1>0, <1>20 DEF HandleStateless
<1>21. CASE HandleStackTrace
  BY <1>0, <1>21 DEF HandleStackTrace
<1>22. CASE EndWalk
  BY <1>0, <1>22 DEF EndWalk
<1>23. CASE HandleContinue
  BY <1>0, <1>23 DEF HandleContinue
<1>24. ASSUME NEW m \in DOMAIN StepMode, HandleStep(m) PROVE Acked'
  BY <1>0, <1>24, StepModes DEF HandleStep
<1>25. CASE HandlePause
  BY <1>0, <1>25 DEF HandlePause
<1>26. CASE HandleDisconnect
  <2>1. Sent(req) /\ req \in Msgs /\ req.cmd = "disconnect" /\ NoAnswer(toClient)
    BY <1>0, <1>26 DEF HandleDisconnect, Types, OneRequest, RequestOK, Handlers, Handling
  <2>2. \A B : Verified(toClient, B) => Verified(toClient', B)
    BY <1>0, <2>1, SentToClient DEF Events, News
  <2> QED BY <1>0, <1>26, <2>2 DEF HandleDisconnect
<1>27. CASE PostDisconnect
  BY <1>0, <1>27 DEF PostDisconnect
<1>28. CASE ReloadClose
  BY <1>0, <1>28 DEF ReloadClose
<1>29. CASE ReloadOutOfMemory
  BY <1>0, <1>29 DEF ReloadOutOfMemory
<1>30. CASE ReloadBuild
  BY <1>0, <1>30 DEF ReloadBuild
<1>31. CASE ReloadPauses
  <2>1. Sent(Req("stopped")) /\ Req("stopped") \in Msgs /\ Req("stopped").cmd = "stopped"
        /\ "stopped" \in Events
    BY <1>31, EventsAreMsgs DEF ReloadPauses, Events, News
  <2>2. \A B : Verified(toClient, B) => Verified(toClient', B)
    BY <1>0, <2>1, SentToClient DEF Events, News
  <2> QED BY <1>0, <1>31, <2>2 DEF ReloadPauses
<1>32. CASE SelfPausedEnds
  <2>1. Sent(Req("continued")) /\ Req("continued") \in Msgs /\ Req("continued").cmd = "continued"
        /\ "continued" \in Events
    BY <1>32, EventsAreMsgs DEF SelfPausedEnds, Events, News
  <2>2. \A B : Verified(toClient, B) => Verified(toClient', B)
    BY <1>0, <2>1, SentToClient DEF Events, News
  <2> QED BY <1>0, <1>32, <2>2 DEF SelfPausedEnds
<1>33. CASE Loaded
  <2>1. \A B : Verified(toClient, B) => Verified(toClient', B)
    BY <1>0, <1>33, LoadedMsgs
  <2> QED BY <1>0, <1>33, <2>1 DEF Loaded
<1>34. CASE Reply
  <2> PICK m \in Msgs : /\ Sent(m) /\ m.cmd \in Handlers \ {"disconnect"}
                        /\ m.lines \subseteq bps \ {0}
    BY <1>0, <1>34, ReplyMsg
  <2>1. Sent(m) /\ m.cmd \notin News /\ NoAnswer(toClient)
    BY <1>0, <1>34 DEF Reply, News
  <2>2. Verified(toClient, bps \ {0}) => Verified(toClient', bps \ {0})
    BY <1>0, <2>1, SentToClient DEF Events, News
  <2> QED BY <1>0, <1>34, <2>2 DEF Reply
<1>35. CASE CloseClient
  BY <1>0, <1>35 DEF CloseClient
<1>36. CASE ThreadEnds
  BY <1>0, <1>36 DEF ThreadEnds
<1>37. CASE Connect
  BY <1>0, <1>37 DEF Connect
<1>38. CASE Receive
  <2> PICK h : h = Head(toClient)
    OBVIOUS
  <2>1. toClient \in Seq(Msgs) /\ toClient # <<>> /\ toClient' = Tail(toClient)
    BY <1>0, <1>38 DEF Receive, Types
  <2>2. /\ Verified(toClient', bps \ {0})
        /\ h.cmd = "setBreakpoints" => h.lines \subseteq bps \ {0}
        /\ NoAnswer(toClient) => h.cmd \in Events
    BY <1>0, <2>1, TailMsg
  <2>3. acked' = (IF h.cmd = "setBreakpoints" THEN h.lines ELSE acked) /\ bps' = bps
    BY <1>38 DEF Receive
  <2>4. toServer # <<>> \/ spc \in Handling => acked' = acked
    BY <1>0, <2>2, <2>3 DEF Events, News
  <2> QED BY <1>0, <1>38, <2>2, <2>3, <2>4 DEF Receive
<1>39. ASSUME NEW r \in Requests, SendRequest(r) PROVE Acked'
  <2>1. /\ spc \notin Handling /\ toServer' # <<>> /\ toServer'[1] = r
    BY <1>0, <1>39, SendsOne
  <2> QED BY <1>0, <1>39, <2>1 DEF SendRequest
<1>41. CASE ReloadRefused
  BY <1>0, <1>41 DEF ReloadRefused
<1>40. CASE UNCHANGED vars
  BY <1>0, <1>40 DEF vars
<1> QED BY <1>1, <1>2, <1>3, <1>4, <1>5, <1>6, <1>7, <1>8, <1>9, <1>10, <1>11,
           <1>12, <1>13, <1>14, <1>15, <1>16, <1>17, <1>18, <1>19, <1>20,
           <1>21, <1>22, <1>23, <1>24, <1>25, <1>26, <1>27, <1>28, <1>29,
           <1>30, <1>31, <1>32, <1>33, <1>34, <1>35, <1>36, <1>37, <1>38,
           <1>39, <1>40, <1>41
       DEF Next, CartThread, DapThread, Client


(***************************************************************************)
(* The theorems.                                                           *)
(***************************************************************************)
LEMMA DapInvInit == Init => DapInv
<1> SUFFICES ASSUME Init PROVE DapInv
  OBVIOUS
<1> USE DEF Init, NoReq, Req
<1>1. Types
  <2>1. Cardinality({}) = 0
    BY FS_EmptySet
  <2>2. TypeOK
    <3>1. /\ MaxBps \in Nat /\ MaxDepth \in Nat /\ MaxRequests \in Nat
      BY DapAssumption
    <3>2. bps \subseteq Lines /\ Cardinality(bps) <= MaxBps
      BY <2>1, <3>1
    <3> QED BY <3>1, <3>2 DEF TypeOK, PauseStates
  <2>3. req \in Msgs
    BY DEF Msgs
  <2>4. toServer \in Seq(Msgs) /\ toClient \in Seq(Msgs)
    OBVIOUS
  <2> QED BY <2>2, <2>3, <2>4 DEF Types
<1>2. Threads /\ RequestOK
  BY DEF Threads, RequestOK, Handlers, Stateless, Untouched, PauseStates
<1>3. OneRequest
  BY DEF OneRequest, NoAnswer, OneAnswer, Handling, Handlers, Stateless
<1>4. Flight /\ Belief
  BY DEF Flight, Belief, InFlight, Resumes, StepMode
<1>5. PausedIn /\ StepEndsWhereAsked
  BY DEF PausedIn, PauseStates, StepEndsWhereAsked
<1>6. StepAsked
  BY DEF StepAsked, StepMode
<1>7. Acked
  BY DEF Acked, Verified, Handling, Handlers, Stateless
<1> QED BY <1>1, <1>2, <1>3, <1>4, <1>5, <1>6, <1>7 DEF DapInv

\* The invariant of a client that waits for the answer to each request.
THEOREM DapInductive == ASSUME ~Pipelines PROVE Spec => []DapInv
<1>1. DapInv /\ [Next]_vars => DapInv'
  BY TypesNext, ThreadsNext, OneRequestNext, RequestOKNext, FlightNext, BeliefNext,
     PausedInNext, StepAskedNext, StepEndsWhereAskedNext, AckedNext DEF DapInv
<1> QED BY <1>1, DapInvInit, PTL DEF Spec

\* For every cart, table size, call depth and sequence of requests of a
\* client that waits for its answers: the threads keep to their protocol, the
\* client learns of every stop, and the DAP thread reads a Lua stack only
\* while the cart stands in its pause loop on it.
THEOREM StopsAreDisciplined == ASSUME ~Pipelines PROVE Spec => []StopDiscipline
<1>1. DapInv => StopDiscipline
  <2> SUFFICES ASSUME DapInv PROVE StopDiscipline
    OBVIOUS
  <2>1. TypeOK
    BY DEF DapInv, Types
  <2>2. NoInvisibleStop
    <3> SUFFICES ASSUME cpc = "poll", ~contPending, link = "on", spc = "read",
                        toServer = <<>>, toClient = <<>>
                 PROVE  view = "stopped"
      BY DEF NoInvisibleStop
    <3>1. running /\ ~InFlight(Resumes)
      BY DEF DapInv, Threads, InFlight, Resumes, StepMode
    <3>2. ~Stops(toClient)
      BY DEF Stops
    <3> QED BY <3>1, <3>2 DEF DapInv, Belief
  <2>3. WalkOnlyWhileStopped
    BY DEF DapInv, WalkOnlyWhileStopped, Flight, InFlight, Held, PausedIn
  <2> QED BY <2>1, <2>2, <2>3 DEF StopDiscipline
<1> QED BY <1>1, DapInductive, PTL

\* A step ends no deeper than it was asked at, whatever breakpoints, pauses,
\* frames and reloads come between the request and the stop.
THEOREM StepsEndWhereAsked == ASSUME ~Pipelines PROVE Spec => []StepEndsWhereAsked
<1>1. DapInv => StepEndsWhereAsked
  BY DEF DapInv
<1> QED BY <1>1, DapInductive, PTL

\* A line the client was told is verified is not passed by: the table holds
\* every line of the last answer, also while the next request is under way.
THEOREM AckedLinesStop == ASSUME ~Pipelines PROVE Spec => AckedBreakpointStops
<1>1. DapInv /\ [Next]_vars =>
        [\A l \in Lines : (HookLine(l) /\ cpc' = "lua" /\ attached) => l \notin acked]_vars
  <2> SUFFICES ASSUME DapInv, NEW l \in Lines, HookLine(l), cpc' = "lua", attached
               PROVE  l \notin acked
    OBVIOUS
  <2>1. ~ShouldBreak(l) /\ l > 0
    BY DEF HookLine
  <2> QED BY <2>1 DEF ShouldBreak, DapInv, Acked
<1> QED BY <1>1, DapInductive, PTL DEF Spec, AckedBreakpointStops

==============================================================================
