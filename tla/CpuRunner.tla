------------------------------ MODULE CpuRunner ------------------------------
(***************************************************************************)
(* The CPU stress runner (features/stress/runnerapi, cmd/cpu-runner and    *)
(* cmd/cpu-runner-client): servers that are started, stopped and killed    *)
(* around one socket path, clients that ask for a benchmark or for its     *)
(* description and may be killed at any moment, and the adapter processes  *)
(* a server starts for them in a process group of their own.               *)
(***************************************************************************)
EXTENDS Naturals, FiniteSets

CONSTANTS Servers, Clients, Nil,
          MaxOutput,   \* maxOutputBytes, in chunks
          MaxStarts,   \* bound: starts of servers
          MaxCalls     \* bound: calls of clients

ASSUME CpuRunnerAssumption ==
    /\ Nil \notin Servers \cup Clients
    /\ MaxOutput \in Nat \ {0} /\ MaxStarts \in Nat /\ MaxCalls \in Nat

VARIABLES stage,    \* server -> where it is between start and exit
          path,     \* the server whose socket the path names; Nil: no file
          clean,    \* history: servers that began to listen at their path while
                    \* no other was about to remove or to give up a socket
          slot,     \* server -> the client whose run holds Server.runs
          call,     \* client -> its call
          starts, calls

servers == <<stage, path, clean, starts>>
vars == <<servers, slot, call, calls>>

\* "none": no call; "sent": the handler has the request; "running": an adapter
\* was started; "answered": the response is written, the handler returns next.
NoCall == [at |-> "none", kind |-> "run", server |-> Nil, gone |-> FALSE,
           alive |-> FALSE, out |-> 0, kept |-> 0, exceeded |-> FALSE,
           code |-> "none", result |-> "none"]

Init ==
    /\ stage = [s \in Servers |-> "off"]
    /\ path = Nil
    /\ clean = {}
    /\ slot = [s \in Servers |-> Nil]
    /\ call = [c \in Clients |-> NoCall]
    /\ starts = 0 /\ calls = 0

-----------------------------------------------------------------------------
\* prepareSocket: a path that exists is dialled before it is taken for stale.
Prepare(s) ==
    /\ stage[s] = "off"
    /\ starts < MaxStarts
    /\ starts' = starts + 1
    /\ stage' = [stage EXCEPT ![s] = IF path = Nil THEN "bind" ELSE "dial"]
    /\ UNCHANGED <<path, clean, slot, call, calls>>

\* MUTANT of Dial: a socket file is stale whoever serves it.
DialSkipped(s) ==
    /\ stage[s] = "dial"
    /\ stage' = [stage EXCEPT ![s] = "unlink"]
    /\ UNCHANGED <<path, clean, starts, slot, call, calls>>

\* A socket that is served is left alone; the start fails.
Dial(s) ==
    /\ stage[s] = "dial"
    /\ stage' = [stage EXCEPT ![s] =
                   IF path # Nil /\ stage[path] = "listening" THEN "off"
                   ELSE "unlink"]
    /\ UNCHANGED <<path, clean, starts, slot, call, calls>>

\* The stale socket is removed, by name; a file that is gone fails the start.
Unlink(s) ==
    /\ stage[s] = "unlink"
    /\ stage' = [stage EXCEPT ![s] = IF path = Nil THEN "off" ELSE "bind"]
    /\ path' = Nil
    /\ UNCHANGED <<clean, starts, slot, call, calls>>

\* net.Listen binds first, which creates the file, and fails if there is one.
Bind(s) ==
    /\ stage[s] = "bind"
    /\ IF path = Nil
       THEN /\ path' = s
            /\ stage' = [stage EXCEPT ![s] = "bound"]
       ELSE /\ stage' = [stage EXCEPT ![s] = "off"]
            /\ UNCHANGED path
    /\ UNCHANGED <<clean, starts, slot, call, calls>>

\* Then it listens: only now a dial of the file is answered.
Listen(s) ==
    /\ stage[s] = "bound"
    /\ stage' = [stage EXCEPT ![s] = "listening"]
    /\ clean' = IF /\ path = s
                   /\ \A t \in Servers \ {s} : stage[t] \in {"off", "dial", "bind"}
                THEN clean \cup {s} ELSE clean \ {s}
    /\ UNCHANGED <<path, starts, slot, call, calls>>

\* A signal: Shutdown closes the listener, which removes the path by name.
Close(s) ==
    /\ stage[s] = "listening"
    /\ stage' = [stage EXCEPT ![s] = "closing"]
    /\ path' = Nil
    /\ UNCHANGED <<clean, starts, slot, call, calls>>

\* What a process that ends leaves of its calls: the connections are cut, the
\* adapters, in groups of their own, go on without it.
Dropped(s) ==
    [c \in Clients |->
        IF call[c].server # s THEN call[c]
        ELSE [NoCall EXCEPT !.kind = call[c].kind, !.alive = call[c].alive]]

\* Serve has returned: its deferred call removes the path a second time, and
\* main returns without waiting for Shutdown.
ExitAfterClose(s) ==
    /\ stage[s] = "closing"
    /\ stage' = [stage EXCEPT ![s] = "off"]
    /\ path' = Nil
    /\ clean' = clean \ {s}
    /\ call' = Dropped(s)
    /\ slot' = [slot EXCEPT ![s] = Nil]
    /\ UNCHANGED <<starts, calls>>

\* The process is killed; its socket file stays.
Kill(s) ==
    /\ stage[s] # "off"
    /\ stage' = [stage EXCEPT ![s] = "off"]
    /\ clean' = clean \ {s}
    /\ call' = Dropped(s)
    /\ slot' = [slot EXCEPT ![s] = Nil]
    /\ UNCHANGED <<path, starts, calls>>

-----------------------------------------------------------------------------
Serving(s) == stage[s] \in {"listening", "closing"}

\* The client connects to whoever the path names, or ends with an error.  An
\* adapter of its previous call that was left behind is out of its reach.
Call(c) ==
    /\ call[c].at = "none" /\ ~call[c].alive
    /\ path # Nil /\ stage[path] = "listening"
    /\ calls < MaxCalls
    /\ calls' = calls + 1
    /\ \E kind \in {"run", "describe"} :
          call' = [call EXCEPT ![c] = [NoCall EXCEPT !.at = "sent", !.kind = kind,
                                                     !.server = path]]
    /\ UNCHANGED <<servers, slot>>

\* The handler admits one run at a time, and any number of descriptions.
Admit(c) ==
    LET s == call[c].server
        run == call[c].kind = "run"
    IN  /\ call[c].at = "sent" /\ Serving(s)
        /\ IF run /\ slot[s] # Nil
           THEN /\ call' = [call EXCEPT ![c] = NoCall]
                /\ UNCHANGED slot
           ELSE /\ call' = [call EXCEPT ![c].at = "running", ![c].alive = ~call[c].gone,
                               ![c].code = IF call[c].gone THEN "killed" ELSE @]
                /\ slot' = IF run THEN [slot EXCEPT ![s] = c] ELSE slot
        /\ UNCHANGED <<servers, calls>>

\* MUTANT of Buffered: a write that does not fit is cut without a note.
BufferedSilently(r, n) ==
    [r EXCEPT !.out = @ + n,
              !.kept = IF r.kept + n > MaxOutput THEN MaxOutput ELSE r.kept + n,
              !.exceeded = @ \/ r.kept = MaxOutput]

\* limitedBuffer.Write: what fits is kept, and an overflow is remembered.
Buffered(r, n) ==
    [r EXCEPT !.out = @ + n,
              !.kept = IF r.kept + n > MaxOutput THEN MaxOutput ELSE r.kept + n,
              !.exceeded = @ \/ n > MaxOutput - r.kept]

\* The adapter writes a chunk or two, and ends; what it writes after its client
\* is gone, or its server, reaches nobody.
Write(c) ==
    /\ call[c].alive /\ call[c].at = "running" /\ ~call[c].gone
    /\ call[c].out <= MaxOutput
    /\ \E n \in 1..2 : call' = [call EXCEPT ![c] = Buffered(@, n)]
    /\ UNCHANGED <<servers, slot, calls>>

AdapterEnds(c) ==
    /\ call[c].alive
    /\ IF call[c].server = Nil THEN call' = [call EXCEPT ![c] = NoCall]
       ELSE \E code \in {"ok", "failed"} :
               call' = [call EXCEPT ![c].alive = FALSE, ![c].code = code]
    /\ UNCHANGED <<servers, slot, calls>>

\* The client is killed: the manager's timeout ends its process group.  Nobody
\* will read what has been buffered.
ClientKilled(c) ==
    /\ call[c].at \in {"sent", "running"} /\ ~call[c].gone
    /\ call' = [call EXCEPT ![c].gone = TRUE, ![c].out = 0, ![c].kept = 0,
                           ![c].exceeded = FALSE]
    /\ UNCHANGED <<servers, slot, calls>>

\* MUTANT of KillGroup: only a description is bound to its request.
KillGroupDescribe(c) ==
    /\ call[c].at = "running" /\ call[c].alive /\ call[c].gone
    /\ call[c].kind = "describe"
    /\ call' = [call EXCEPT ![c].alive = FALSE, ![c].code = "killed"]
    /\ UNCHANGED <<servers, slot, calls>>

\* The closed connection cancels the request, which kills the adapter's group.
KillGroup(c) ==
    /\ call[c].at = "running" /\ call[c].alive /\ call[c].gone
    /\ call' = [call EXCEPT ![c].alive = FALSE, ![c].code = "killed"]
    /\ UNCHANGED <<servers, slot, calls>>

\* execute returns when the adapter has ended.
Answered(c) == ~call[c].alive

\* The response: the output, if it is whole and the adapter ended well.
Respond(c) ==
    LET r == call[c]
    IN  /\ r.at = "running" /\ Answered(c)
        /\ call' = [call EXCEPT ![c].at = "answered",
                      ![c].result = IF r.gone \/ r.exceeded \/ r.code # "ok"
                                    THEN "error" ELSE "ok"]
        /\ UNCHANGED <<servers, slot, calls>>

\* The handler returns, and its deferred receive frees the slot.  It returns
\* after its adapter; one that ran on would still load the machine.
Return(c) ==
    LET s == call[c].server
    IN  /\ call[c].at = "answered"
        /\ call' = [call EXCEPT ![c] =
                      IF call[c].alive
                      THEN [NoCall EXCEPT !.kind = call[c].kind, !.alive = TRUE,
                                         !.server = s]
                      ELSE NoCall]
        /\ slot' = IF slot[s] = c THEN [slot EXCEPT ![s] = Nil] ELSE slot
        /\ UNCHANGED <<servers, calls>>

Handler(c) == Admit(c) \/ KillGroup(c) \/ Respond(c) \/ Return(c)

Next ==
    \/ \E s \in Servers : \/ Prepare(s) \/ Dial(s) \/ Unlink(s) \/ Bind(s)
                          \/ Listen(s) \/ Close(s) \/ ExitAfterClose(s) \/ Kill(s)
    \/ \E c \in Clients : \/ Call(c) \/ Write(c) \/ AdapterEnds(c)
                          \/ ClientKilled(c) \/ Handler(c)

\* The handlers of a server that lives make progress; nothing makes a
\* benchmark, a client or a stop of the server come to an end.
Fairness == \A c \in Clients : WF_vars(Handler(c))

Spec == Init /\ [][Next]_vars /\ Fairness

-----------------------------------------------------------------------------
\* Two benchmarks never load the machine for one server, also when the client
\* of the first is gone and the next asks at once (Server.runs, execute).
OneRunPerServer ==
    \A c, d \in Clients :
        /\ c # d
        /\ call[c].alive /\ call[c].kind = "run" /\ call[c].server # Nil
        /\ call[d].alive /\ call[d].kind = "run"
        => call[d].server # call[c].server

\* A client that reports success has the whole output of an adapter that ended
\* well, through overflows, kills and servers that end (limitedBuffer, execute).
SuccessIsWhole ==
    \A c \in Clients : call[c].result = "ok" =>
        call[c].code = "ok" /\ call[c].kept = call[c].out

\* Runs that share a machine do not blur each other's results: one benchmark at
\* a time per server, and success only with the whole output of a good end.
RunsSound == OneRunPerServer /\ SuccessIsWhole

\* A server that began to listen at its path keeps it until it stops, whoever
\* starts, dials or binds meanwhile or was started before (prepareSocket).  Not
\* so one that another server took for stale just before, or one that shares
\* the path with a server that has lost it: either still removes it by name.
ListenerKeepsItsSocket ==
    \A s \in Servers : s \in clean /\ stage[s] = "listening" => path = s

\* A run whose client is gone gives its slot back, whatever its benchmark does
\* (cmd.Cancel): the next job need not wait for it.
AbandonedRunIsReleased ==
    \A c \in Clients : (call[c].gone /\ call[c].at # "none") ~> call[c].at = "none"
=============================================================================
