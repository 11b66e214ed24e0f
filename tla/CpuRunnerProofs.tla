-------------------------- MODULE CpuRunnerProofs --------------------------
(***************************************************************************)
(* Theorems about CpuRunner, for any servers, clients and limits: runs of  *)
(* one server exclude each other, a success is whole, and a server whose   *)
(* socket nobody was about to remove as it began to listen keeps it.       *)
(***************************************************************************)
EXTENDS CpuRunner, TLAPS

Stage == {"off", "dial", "unlink", "bind", "bound", "listening", "closing"}

CallRecord ==
    [at : {"none", "sent", "running", "answered"}, kind : {"run", "describe"},
     server : Servers \cup {Nil}, gone : BOOLEAN, alive : BOOLEAN,
     out : Nat, kept : Nat, exceeded : BOOLEAN,
     code : {"none", "ok", "failed", "killed"}, result : {"none", "ok", "error"}]

\* The values the variables take.
TypeOK ==
    /\ stage \in [Servers -> Stage]
    /\ path \in Servers \cup {Nil}
    /\ clean \subseteq Servers
    /\ slot \in [Servers -> Clients \cup {Nil}]
    /\ call \in [Clients -> CallRecord]
    /\ starts \in Nat /\ calls \in Nat

-----------------------------------------------------------------------------
\* What is true of one call by itself: an adapter a server still minds belongs
\* to a handler that waits for it, and a result is given after the last write.
CallSound(r) ==
    /\ r.at # "none" => r.server # Nil
    /\ r.alive /\ r.server # Nil => r.at = "running"
    /\ r.result # "none" => r.at = "answered"
    /\ r.result = "ok" => r.code = "ok" /\ ~r.exceeded
    /\ ~r.exceeded => r.kept = r.out

\* The run a handler minds holds the slot of its server.
HoldsSlot(c, r, sl) ==
    r.at \in {"running", "answered"} /\ r.kind = "run" => sl[r.server] = c

CallsSound == \A c \in Clients : CallSound(call[c]) /\ HoldsSlot(c, call[c], slot)

\* Beside a server that keeps its socket the others are off, or will find it
\* served, or will fail to bind.
SocketSound ==
    \A s \in Servers : s \in clean /\ stage[s] = "listening" =>
        /\ path = s
        /\ \A t \in Servers \ {s} : stage[t] \in {"off", "dial", "bind"}

\* A client that has no call satisfies what is said of calls.
LEMMA NoCallSound ==
    /\ NoCall \in CallRecord /\ CallSound(NoCall)
    /\ NoCall.at = "none" /\ NoCall.server = Nil /\ NoCall.kind = "run"
  BY DEF NoCall, CallRecord, CallSound

\* A call whose server is gone is over and holds nothing.
LEMMA LeftBehindSound ==
    ASSUME NEW k \in {"run", "describe"}, NEW a \in BOOLEAN
    PROVE  LET r == [NoCall EXCEPT !.kind = k, !.alive = a]
           IN  /\ r \in CallRecord
               /\ r.at = "none" /\ r.server = Nil
               /\ r.result = "none" /\ r.kept = r.out
  BY DEF NoCall, CallRecord

\* What the buffer keeps of the output never exceeds its limit.
LEMMA BufferedSound ==
    ASSUME NEW r \in CallRecord, CallSound(r), r.at = "running", NEW n \in 1..2
    PROVE  /\ Buffered(r, n) \in CallRecord /\ CallSound(Buffered(r, n))
           /\ Buffered(r, n).at = r.at /\ Buffered(r, n).kind = r.kind
           /\ Buffered(r, n).server = r.server
  <1> DEFINE o == r.out + n
             k == IF r.kept + n > MaxOutput THEN MaxOutput ELSE r.kept + n
             e == r.exceeded \/ n > MaxOutput - r.kept
             b == Buffered(r, n)
  <1>1. MaxOutput \in Nat /\ r.kept \in Nat /\ r.out \in Nat
    BY CpuRunnerAssumption DEF CallRecord
  <1>2. o \in Nat /\ k \in Nat /\ e \in BOOLEAN
    BY <1>1
  <1>3. ASSUME ~e PROVE k = o
    <2>1. ~r.exceeded /\ ~(n > MaxOutput - r.kept)
      BY <1>3
    <2>2. r.kept = r.out
      BY <2>1 DEF CallSound
    <2> QED
      BY <1>1, <2>1, <2>2
  <1>4. b = [r EXCEPT !.out = o, !.kept = k, !.exceeded = e]
    BY DEF Buffered
  <1> HIDE DEF o, k, e, b
  <1>5. /\ b \in CallRecord
        /\ b.at = r.at /\ b.kind = r.kind /\ b.server = r.server
        /\ b.alive = r.alive /\ b.code = r.code /\ b.result = r.result
        /\ b.out = o /\ b.kept = k /\ b.exceeded = e
    BY <1>2, <1>4 DEF CallRecord
  <1>6. r.result = "none" /\ r.server # Nil
    BY DEF CallSound
  <1>7. CallSound(b)
    BY <1>3, <1>5, <1>6 DEF CallSound
  <1> QED
    BY <1>5, <1>7 DEF b

-----------------------------------------------------------------------------
\* An action that changes one call, and leaves the slots of the others, has to
\* be looked at for that call only.
LEMMA OneCallChanges ==
    ASSUME TypeOK, CallsSound, NEW c \in Clients, NEW r \in CallRecord,
           CallSound(r),
           call' = [call EXCEPT ![c] = r],
           slot' \in [Servers -> Clients \cup {Nil}],
           HoldsSlot(c, r, slot'),
           \A d \in Clients \ {c} : HoldsSlot(d, call[d], slot')
    PROVE  CallsSound' /\ call' \in [Clients -> CallRecord]
  <1>1. call'[c] = r /\ \A d \in Clients \ {c} : call'[d] = call[d]
    BY DEF TypeOK
  <1>2. call' \in [Clients -> CallRecord]
    BY DEF TypeOK
  <1>3. \A d \in Clients : CallSound(call'[d]) /\ HoldsSlot(d, call'[d], slot')
    BY <1>1 DEF CallsSound
  <1> QED
    BY <1>2, <1>3 DEF CallsSound

\* A server that ends takes its calls with it.
LEMMA DroppedSound ==
    ASSUME TypeOK, CallsSound, NEW s \in Servers,
           call' = Dropped(s), slot' = [slot EXCEPT ![s] = Nil]
    PROVE  CallsSound' /\ call' \in [Clients -> CallRecord]
  <1> SUFFICES ASSUME NEW c \in Clients
               PROVE  /\ call'[c] \in CallRecord /\ CallSound(call'[c])
                      /\ HoldsSlot(c, call'[c], slot')
    BY DEF CallsSound, Dropped
  <1>1. CallSound(call[c]) /\ HoldsSlot(c, call[c], slot) /\ call[c] \in CallRecord
    BY DEF CallsSound, TypeOK
  <1>2. CASE call[c].server # s
    <2>1. call'[c] = call[c]
      BY <1>2 DEF Dropped
    <2>2. call[c].at \in {"running", "answered"} => call[c].server \in Servers
      BY <1>1 DEF CallSound, CallRecord
    <2>3. HoldsSlot(c, call[c], slot')
      BY <1>1, <1>2, <2>2 DEF HoldsSlot, TypeOK
    <2> QED
      BY <1>1, <2>1, <2>3
  <1>3. CASE call[c].server = s
    <2>1. call'[c] = [NoCall EXCEPT !.kind = call[c].kind, !.alive = call[c].alive]
      BY <1>3 DEF Dropped
    <2>2. /\ call'[c] \in CallRecord
          /\ call'[c].at = "none" /\ call'[c].server = Nil
          /\ call'[c].result = "none" /\ call'[c].kept = call'[c].out
      <3>1. call[c].kind \in {"run", "describe"} /\ call[c].alive \in BOOLEAN
        BY <1>1 DEF CallRecord
      <3> DEFINE r == [NoCall EXCEPT !.kind = call[c].kind, !.alive = call[c].alive]
      <3>2. /\ r \in CallRecord
            /\ r.at = "none" /\ r.server = Nil
            /\ r.result = "none" /\ r.kept = r.out
        BY <3>1, LeftBehindSound
      <3> HIDE DEF r
      <3>3. call'[c] = r
        BY <2>1 DEF r
      <3> QED
        BY <3>2, <3>3
    <2> QED
      BY <2>2 DEF CallSound, HoldsSlot
  <1> QED
    BY <1>2, <1>3

-----------------------------------------------------------------------------
CallInv == TypeOK /\ CallsSound

\* Nobody has called yet.
LEMMA CallInvInit == Init => CallInv
  <1> SUFFICES ASSUME Init PROVE CallInv
    OBVIOUS
  <1>1. TypeOK
    BY NoCallSound DEF Init, TypeOK, Stage
  <1>2. CallsSound
    BY NoCallSound DEF Init, CallsSound, HoldsSlot
  <1> QED
    BY <1>1, <1>2 DEF CallInv

\* The life of a server, up to the end of its process, leaves calls sound.
LEMMA ServerKeepsCalls ==
    ASSUME CallInv, NEW s \in Servers,
           \/ Prepare(s) \/ Dial(s) \/ Unlink(s) \/ Bind(s) \/ Listen(s) \/ Close(s)
           \/ ExitAfterClose(s) \/ Kill(s)
    PROVE  CallInv'
  <1> USE DEF CallInv
  <1>1. ASSUME UNCHANGED <<slot, call, calls>>,
               Prepare(s) \/ Dial(s) \/ Unlink(s) \/ Bind(s) \/ Listen(s) \/ Close(s)
        PROVE  CallInv'
    <2>1. TypeOK'
      BY <1>1 DEF TypeOK, Stage, Prepare, Dial, Unlink, Bind, Listen, Close
    <2>2. CallsSound'
      BY <1>1 DEF CallsSound
    <2> QED
      BY <2>1, <2>2
  <1>2. CASE ExitAfterClose(s) \/ Kill(s)
    <2>1. call' = Dropped(s) /\ slot' = [slot EXCEPT ![s] = Nil]
      BY <1>2 DEF ExitAfterClose, Kill
    <2>2. CallsSound' /\ call' \in [Clients -> CallRecord]
      BY <2>1, DroppedSound
    <2>3. /\ stage' \in [Servers -> Stage] /\ path' \in Servers \cup {Nil}
          /\ clean' \subseteq Servers /\ starts' \in Nat /\ calls' \in Nat
          /\ slot' \in [Servers -> Clients \cup {Nil}]
      BY <1>2 DEF ExitAfterClose, Kill, TypeOK, Stage
    <2> QED
      BY <2>2, <2>3 DEF TypeOK
  <1> QED
    BY <1>1, <1>2 DEF Prepare, Dial, Unlink, Bind, Listen, Close

\* The steps that leave the slots alone change one call in a way that is sound
\* by itself and neither takes nor moves a run that holds a slot.
LEMMA SlotsUnchanged ==
    ASSUME CallInv, NEW c \in Clients, NEW r \in CallRecord, CallSound(r),
           call' = [call EXCEPT ![c] = r], UNCHANGED slot,
           r.at \in {"running", "answered"} =>
               /\ call[c].at \in {"running", "answered"}
               /\ r.kind = call[c].kind /\ r.server = call[c].server
    PROVE  CallsSound' /\ call' \in [Clients -> CallRecord]
  <1>1. HoldsSlot(c, call[c], slot) /\ \A d \in Clients : HoldsSlot(d, call[d], slot)
    BY DEF CallInv, CallsSound
  <1>2. HoldsSlot(c, r, slot')
    BY <1>1 DEF HoldsSlot
  <1>3. \A d \in Clients \ {c} : HoldsSlot(d, call[d], slot')
    BY <1>1 DEF HoldsSlot
  <1>4. slot' \in [Servers -> Clients \cup {Nil}]
    BY DEF CallInv, TypeOK
  <1> QED
    BY <1>2, <1>3, <1>4, OneCallChanges DEF CallInv

\* A client calls, gives up and takes its answer, the adapter runs: no slot moves.
LEMMA ClientKeepsCalls ==
    ASSUME CallInv, NEW c \in Clients,
           Call(c) \/ Write(c) \/ AdapterEnds(c) \/ ClientKilled(c)
    PROVE  CallInv'
  <1>1. UNCHANGED servers /\ UNCHANGED slot /\ calls' \in Nat
    BY DEF Call, Write, AdapterEnds, ClientKilled, CallInv, TypeOK
  <1>2. SUFFICES ASSUME TRUE PROVE CallsSound' /\ call' \in [Clients -> CallRecord]
    BY <1>1 DEF CallInv, TypeOK, servers
  <1>3. call[c] \in CallRecord /\ CallSound(call[c])
    BY DEF CallInv, TypeOK, CallsSound
  <1>4. CASE Call(c)
    <2>1. PICK kind \in {"run", "describe"} :
             call' = [call EXCEPT ![c] = [NoCall EXCEPT !.at = "sent", !.kind = kind,
                                                        !.server = path]]
      BY <1>4 DEF Call
    <2>2. path \in Servers /\ path # Nil
      BY <1>4 DEF Call, CallInv, TypeOK
    <2> DEFINE r == [NoCall EXCEPT !.at = "sent", !.kind = kind, !.server = path]
    <2>3. r \in CallRecord /\ CallSound(r) /\ r.at = "sent"
      BY <2>2 DEF NoCall, CallRecord, CallSound
    <2> HIDE DEF r
    <2>4. call' = [call EXCEPT ![c] = r]
      BY <2>1 DEF r
    <2> QED
      BY <1>1, <2>3, <2>4, SlotsUnchanged
  <1>5. CASE Write(c)
    <2>1. PICK n \in 1..2 : call' = [call EXCEPT ![c] = Buffered(call[c], n)]
      BY <1>5 DEF Write
    <2>2. call[c].at = "running"
      BY <1>5 DEF Write
    <2> DEFINE r == Buffered(call[c], n)
    <2>3. /\ r \in CallRecord /\ CallSound(r)
          /\ r.kind = call[c].kind /\ r.server = call[c].server
      BY <1>3, <2>2, BufferedSound
    <2> HIDE DEF r
    <2>4. call' = [call EXCEPT ![c] = r]
      BY <2>1 DEF r
    <2> QED
      BY <1>1, <2>2, <2>3, <2>4, SlotsUnchanged
  <1>6. CASE AdapterEnds(c)
    <2>1. CASE call[c].server = Nil
      <3>1. call' = [call EXCEPT ![c] = NoCall]
        BY <1>6, <2>1 DEF AdapterEnds
      <3> QED
        BY <1>1, <3>1, NoCallSound, SlotsUnchanged
    <2>2. CASE call[c].server # Nil
      <3>1. PICK code \in {"ok", "failed"} :
               call' = [call EXCEPT ![c].alive = FALSE, ![c].code = code]
        BY <1>6, <2>2 DEF AdapterEnds
      <3>2. call[c].at = "running" /\ call[c].result = "none"
        BY <1>3, <1>6, <2>2 DEF AdapterEnds, CallSound
      <3> DEFINE r == [call[c] EXCEPT !.alive = FALSE, !.code = code]
      <3>3. /\ r \in CallRecord /\ CallSound(r)
            /\ r.kind = call[c].kind /\ r.server = call[c].server
        BY <1>3, <3>2 DEF CallRecord, CallSound
      <3>4. call' = [call EXCEPT ![c] = r]
        BY <1>3, <3>1 DEF CallInv, TypeOK
      <3> HIDE DEF r
      <3> QED
        BY <1>1, <3>2, <3>3, <3>4, SlotsUnchanged
    <2> QED
      BY <2>1, <2>2
  <1>7. CASE ClientKilled(c)
    <2>1. call[c].at \in {"sent", "running"}
      BY <1>7 DEF ClientKilled
    <2> DEFINE r == [call[c] EXCEPT !.gone = TRUE, !.out = 0, !.kept = 0,
                                    !.exceeded = FALSE]
    <2>2. /\ r \in CallRecord /\ CallSound(r) /\ r.at = call[c].at
          /\ r.kind = call[c].kind /\ r.server = call[c].server
      BY <1>3, <2>1 DEF CallRecord, CallSound
    <2>3. call' = [call EXCEPT ![c] = r]
      BY <1>3, <1>7 DEF ClientKilled, CallInv, TypeOK
    <2> HIDE DEF r
    <2> QED
      BY <1>1, <2>1, <2>2, <2>3, SlotsUnchanged
  <1> QED
    BY <1>4, <1>5, <1>6, <1>7

\* The handler takes the slot when it is free, and gives it back at its end.
LEMMA HandlerKeepsCalls ==
    ASSUME CallInv, NEW c \in Clients, Handler(c)
    PROVE  CallInv'
  <1>1. UNCHANGED servers /\ UNCHANGED calls
    BY DEF Handler, Admit, KillGroup, Respond, Return
  <1>2. SUFFICES ASSUME TRUE
                 PROVE  /\ CallsSound' /\ call' \in [Clients -> CallRecord]
                        /\ slot' \in [Servers -> Clients \cup {Nil}]
    BY <1>1 DEF CallInv, TypeOK, servers
  <1>3. /\ call[c] \in CallRecord /\ CallSound(call[c])
        /\ slot \in [Servers -> Clients \cup {Nil}]
        /\ \A d \in Clients : HoldsSlot(d, call[d], slot)
        /\ \A d \in Clients : call[d].at # "none" => call[d].server \in Servers
    BY DEF CallInv, TypeOK, CallsSound, CallSound, CallRecord
  <1> DEFINE s == call[c].server
  <1>4. CASE Admit(c)
    <2>1. call[c].at = "sent" /\ s \in Servers
      BY <1>3, <1>4 DEF Admit
    <2>2. CASE call[c].kind = "run" /\ slot[s] # Nil
      <3>1. call' = [call EXCEPT ![c] = NoCall] /\ UNCHANGED slot
        BY <1>4, <2>2 DEF Admit
      <3> QED
        BY <1>3, <3>1, NoCallSound, SlotsUnchanged
    <2>3. CASE ~(call[c].kind = "run" /\ slot[s] # Nil)
      <3> DEFINE r == [call[c] EXCEPT !.at = "running", !.alive = ~call[c].gone,
                          !.code = IF call[c].gone THEN "killed" ELSE @]
      <3>1. /\ call' = [call EXCEPT ![c] = r]
            /\ slot' = IF call[c].kind = "run" THEN [slot EXCEPT ![s] = c] ELSE slot
        BY <1>3, <1>4, <2>3 DEF Admit, CallInv, TypeOK
      <3>2. call[c].result = "none"
        BY <1>3, <2>1 DEF CallSound
      <3>3. /\ r \in CallRecord /\ CallSound(r)
            /\ r.kind = call[c].kind /\ r.server = s
        BY <1>3, <2>1, <3>2 DEF CallRecord, CallSound
      <3> HIDE DEF r
      <3>4. HoldsSlot(c, r, slot')
        BY <1>3, <2>1, <3>1, <3>3 DEF HoldsSlot
      <3>5. ASSUME NEW d \in Clients \ {c} PROVE HoldsSlot(d, call[d], slot')
        <4>1. HoldsSlot(d, call[d], slot)
          BY <1>3
        <4>2. CASE call[d].at \in {"running", "answered"} /\ call[d].kind = "run"
          <5>1. slot[call[d].server] = d /\ call[d].server \in Servers
            BY <1>3, <4>1, <4>2 DEF HoldsSlot
          <5>2. d # Nil
            BY CpuRunnerAssumption
          <5>3. call[c].kind = "run" => call[d].server # s
            BY <2>3, <5>1, <5>2
          <5> QED
            BY <1>3, <2>1, <3>1, <5>1, <5>3 DEF HoldsSlot
        <4> QED
          BY <4>2 DEF HoldsSlot
      <3>6. slot' \in [Servers -> Clients \cup {Nil}]
        BY <1>3, <2>1, <3>1
      <3> QED
        BY <3>1, <3>3, <3>4, <3>5, <3>6, OneCallChanges DEF CallInv
    <2> QED
      BY <2>2, <2>3
  <1>5. CASE KillGroup(c)
    <2> DEFINE r == [call[c] EXCEPT !.alive = FALSE, !.code = "killed"]
    <2>1. call' = [call EXCEPT ![c] = r] /\ UNCHANGED slot /\ call[c].at = "running"
      BY <1>3, <1>5 DEF KillGroup, CallInv, TypeOK
    <2>2. /\ r \in CallRecord /\ CallSound(r)
          /\ r.kind = call[c].kind /\ r.server = s
      BY <1>3, <2>1 DEF CallRecord, CallSound
    <2> HIDE DEF r
    <2> QED
      BY <1>3, <2>1, <2>2, SlotsUnchanged
  <1>6. CASE Respond(c)
    <2> DEFINE r == [call[c] EXCEPT !.at = "answered",
                       !.result = IF call[c].gone \/ call[c].exceeded \/ call[c].code # "ok"
                                  THEN "error" ELSE "ok"]
    <2>1. /\ call' = [call EXCEPT ![c] = r] /\ UNCHANGED slot
          /\ call[c].at = "running" /\ ~call[c].alive
      BY <1>3, <1>6 DEF Respond, Answered, CallInv, TypeOK
    <2>2. /\ r \in CallRecord /\ CallSound(r)
          /\ r.kind = call[c].kind /\ r.server = s
      BY <1>3, <2>1 DEF CallRecord, CallSound
    <2> HIDE DEF r
    <2> QED
      BY <1>3, <2>1, <2>2, SlotsUnchanged
  <1>7. CASE Return(c)
    <2>1. call[c].at = "answered" /\ s \in Servers /\ ~call[c].alive
      BY <1>3, <1>7 DEF Return, CallSound
    <2>2. /\ call' = [call EXCEPT ![c] = NoCall]
          /\ slot' = IF slot[s] = c THEN [slot EXCEPT ![s] = Nil] ELSE slot
      BY <1>7, <2>1 DEF Return
    <2>3. slot' \in [Servers -> Clients \cup {Nil}]
      BY <1>3, <2>1, <2>2
    <2>4. HoldsSlot(c, NoCall, slot')
      BY NoCallSound DEF HoldsSlot
    <2>5. ASSUME NEW d \in Clients \ {c} PROVE HoldsSlot(d, call[d], slot')
      <3>1. HoldsSlot(d, call[d], slot)
        BY <1>3
      <3>2. CASE call[d].at \in {"running", "answered"} /\ call[d].kind = "run"
        <4>1. slot[call[d].server] = d /\ call[d].server \in Servers
          BY <1>3, <3>1, <3>2 DEF HoldsSlot
        <4> QED
          BY <1>3, <2>1, <2>2, <4>1 DEF HoldsSlot
      <3> QED
        BY <3>2 DEF HoldsSlot
    <2> QED
      BY <2>2, <2>3, <2>4, <2>5, NoCallSound, OneCallChanges DEF CallInv
  <1> QED
    BY <1>4, <1>5, <1>6, <1>7 DEF Handler

\* Every step of the system keeps the invariant of the calls.
LEMMA CallInvNext == CallInv /\ [Next]_vars => CallInv'
  <1> SUFFICES ASSUME CallInv, [Next]_vars PROVE CallInv'
    OBVIOUS
  <1>1. CASE UNCHANGED vars
    <2>1. UNCHANGED <<stage, path, clean, starts, slot, call, calls>>
      BY <1>1 DEF vars, servers
    <2> QED
      BY <2>1 DEF CallInv, TypeOK, CallsSound
  <1>2. ASSUME NEW s \in Servers,
               Prepare(s) \/ Dial(s) \/ Unlink(s) \/ Bind(s) \/ Listen(s) \/ Close(s)
                   \/ ExitAfterClose(s) \/ Kill(s)
        PROVE  CallInv'
    BY <1>2, ServerKeepsCalls
  <1>3. ASSUME NEW c \in Clients,
               Call(c) \/ Write(c) \/ AdapterEnds(c) \/ ClientKilled(c)
        PROVE  CallInv'
    BY <1>3, ClientKeepsCalls
  <1>4. ASSUME NEW c \in Clients, Handler(c) PROVE CallInv'
    BY <1>4, HandlerKeepsCalls
  <1> QED
    BY <1>1, <1>2, <1>3, <1>4 DEF Next

\* Two benchmarks never load the machine for one server, and what a client
\* takes for a success is the whole output of an adapter that ended well
\* (Server.run, limitedBuffer, execute).
THEOREM RunsAreSound == Spec => []RunsSound
  <1>1. CallInv => RunsSound
    <2> SUFFICES ASSUME CallInv PROVE RunsSound
      OBVIOUS
    <2>1. \A c \in Clients : CallSound(call[c]) /\ HoldsSlot(c, call[c], slot)
      BY DEF CallInv, CallsSound
    <2>2. SuccessIsWhole
      BY <2>1 DEF CallSound, SuccessIsWhole
    <2>3. OneRunPerServer
      BY <2>1 DEF CallSound, HoldsSlot, OneRunPerServer
    <2> QED
      BY <2>2, <2>3 DEF RunsSound
  <1> QED
    BY <1>1, CallInvInit, CallInvNext, PTL DEF Spec

-----------------------------------------------------------------------------
SocketInv == CallInv /\ SocketSound

\* A server that starts sees the path of the one that listens and gives up at
\* its dial, or at its bind if it saw no file; so nobody else gets to the steps
\* that remove the path, and no second server to listen.
LEMMA SocketInvNext == SocketInv /\ [Next]_vars => SocketInv'
  <1> SUFFICES ASSUME SocketInv, [Next]_vars PROVE SocketSound'
    BY CallInvNext DEF SocketInv
  <1>1. TypeOK /\ SocketSound
    BY DEF SocketInv, CallInv
  <1>2. CASE UNCHANGED servers
    BY <1>1, <1>2 DEF servers, SocketSound
  <1>3. ASSUME NEW s \in Servers, Prepare(s) PROVE SocketSound'
    BY <1>1, <1>3, CpuRunnerAssumption DEF Prepare, SocketSound, TypeOK
  <1>4. ASSUME NEW s \in Servers, Dial(s) PROVE SocketSound'
    BY <1>1, <1>4, CpuRunnerAssumption DEF Dial, SocketSound, TypeOK
  <1>5. ASSUME NEW s \in Servers, Unlink(s) PROVE SocketSound'
    BY <1>1, <1>5 DEF Unlink, SocketSound, TypeOK
  <1>6. ASSUME NEW s \in Servers, Bind(s) PROVE SocketSound'
    <2> SUFFICES ASSUME NEW u \in Servers, u \in clean', stage'[u] = "listening"
                 PROVE  /\ path' = u
                        /\ \A t \in Servers \ {u} : stage'[t] \in {"off", "dial", "bind"}
      BY DEF SocketSound
    <2>1. clean' = clean /\ stage'[s] \in {"bound", "off"} /\ \A t \in Servers \ {s} : stage'[t] = stage[t]
      BY <1>1, <1>6 DEF Bind, TypeOK
    <2>2. u # s /\ u \in clean /\ stage[u] = "listening"
      BY <2>1
    <2>3. path = u /\ \A t \in Servers \ {u} : stage[t] \in {"off", "dial", "bind"}
      BY <1>1, <2>2 DEF SocketSound
    <2>4. path # Nil
      BY <2>3, CpuRunnerAssumption
    <2>5. path' = path /\ stage'[s] = "off"
      BY <1>1, <1>6, <2>4 DEF Bind, TypeOK
    <2> QED
      BY <2>1, <2>3, <2>5
  <1>12. ASSUME NEW s \in Servers, Listen(s) PROVE SocketSound'
    BY <1>1, <1>12 DEF Listen, SocketSound, TypeOK
  <1>7. ASSUME NEW s \in Servers, Close(s) PROVE SocketSound'
    BY <1>1, <1>7 DEF Close, SocketSound, TypeOK
  <1>8. ASSUME NEW s \in Servers, ExitAfterClose(s) PROVE SocketSound'
    BY <1>1, <1>8 DEF ExitAfterClose, SocketSound, TypeOK
  <1>9. ASSUME NEW s \in Servers, Kill(s) PROVE SocketSound'
    BY <1>1, <1>9 DEF Kill, SocketSound, TypeOK
  <1>10. ASSUME NEW c \in Clients,
                Call(c) \/ Write(c) \/ AdapterEnds(c) \/ ClientKilled(c) \/ Handler(c)
         PROVE  UNCHANGED servers
    BY <1>10 DEF Call, Write, AdapterEnds, ClientKilled, Handler, Admit, KillGroup,
                 Respond, Return
  <1>11. UNCHANGED vars => UNCHANGED servers
    BY DEF vars
  <1> QED
    BY <1>2, <1>3, <1>4, <1>5, <1>6, <1>7, <1>8, <1>9, <1>10, <1>11, <1>12 DEF Next

\* A server that began to listen at its path while no other server was about to
\* remove it keeps it until it stops, whoever starts, dials or binds meanwhile
\* (prepareSocket): ListenerKeepsItsSocket.
THEOREM SocketIsKept == Spec => []ListenerKeepsItsSocket
  <1>1. Init => SocketInv
    BY CallInvInit DEF Init, SocketInv, SocketSound
  <1>2. SocketInv => ListenerKeepsItsSocket
    BY DEF SocketInv, SocketSound, ListenerKeepsItsSocket
  <1> QED
    BY <1>1, <1>2, SocketInvNext, PTL DEF Spec
=============================================================================
