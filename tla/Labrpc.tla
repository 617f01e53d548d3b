------------------------------- MODULE Labrpc -------------------------------
(* The simulated network (labrpc/labrpc.go): ClientEnd.Call hands a request *)
(* to the goroutine of MakeNetwork, which starts one processReq for it.     *)
(* processReq looks the end and the server up once, drops the request, or   *)
(* runs the handler on the server it found while it asks every 100 ms       *)
(* whether that server is still there, and asks again before it answers.    *)
(* Handlers, callers and whoever reconfigures the network are left to the   *)
(* module that uses this one.                                               *)
EXTENDS Naturals

CONSTANTS
    Holder,          \* who holds ends: servers and clients
    Server,          \* server names
    MaxInstance,     \* bound: the labrpc.Servers made for one name
    Call             \* the calls of a behaviour

ASSUME InstanceAssumption == MaxInstance \in Nat \ {0}

VARIABLES
    reliable,        \* rn.reliable
    longReordering,  \* rn.longReordering
    ends,            \* the keys of rn.ends
    enabled,         \* the ends with rn.enabled set
    servers,         \* servers[s]: the labrpc.Server of name s, 0 for nil
    done,            \* rn.done is closed
    listening,       \* the goroutine of MakeNetwork has not returned
    call,            \* call[c]: where the call c is, and what processReq read
    handler          \* handler[c]: the goroutine that runs the handler of c

(* An end is made for its holder and connected once, right after it is     *)
(* made: its name carries the holder, which of the holder's sets of ends   *)
(* it belongs to, and the server it is connected to.                       *)
Instance == 1 .. MaxInstance
End == Holder \X Instance \X Server
NoInstance == 0

settings == <<reliable, longReordering, ends, enabled, servers, done>>
netVars == <<settings, listening, call, handler>>

(* pc idle: not called; send: in the select of Call; read: processReq      *)
(* starts; refused: it found no server; accepted: it did; wait: the        *)
(* handler was started; answer: its reply was received; dead: the server   *)
(* was found dead before that; reply: a reply is on its way; true, false:  *)
(* Call returned.                                                          *)
Phases == {"idle", "send", "read", "refused", "accepted", "wait", "answer",
           "dead", "reply", "true", "false"}
CallRecord == [pc : Phases, end : End, server : Instance \cup {NoInstance},
               reliable : BOOLEAN, longreordering : BOOLEAN]

NetTypeOK ==
    /\ reliable \in BOOLEAN /\ longReordering \in BOOLEAN
    /\ ends \subseteq End /\ enabled \subseteq End
    /\ servers \in [Server -> Instance \cup {NoInstance}]
    /\ done \in BOOLEAN /\ listening \in BOOLEAN
    /\ call \in [Call -> CallRecord]
    /\ handler \in [Call -> {"none", "running", "stuck", "done"}]

(* MakeNetwork, and a lookup that has not happened. *)
Idle == [pc |-> "idle", end |-> CHOOSE e \in End : TRUE, server |-> NoInstance,
         reliable |-> TRUE, longreordering |-> FALSE]

Returned(c) == call[c].pc \in {"true", "false"}
Target(c) == call[c].end[3]

-----------------------------------------------------------------------------
(* ClientEnd.Call on the end e.                                            *)
CallEnd(c, e) ==
    /\ call[c].pc = "idle"
    /\ call' = [call EXCEPT ![c] = [Idle EXCEPT !.pc = "send", !.end = e]]

(* The select of Call takes the closed done. *)
CallNoNetwork(c) ==
    /\ call[c].pc = "send" /\ done
    /\ call' = [call EXCEPT ![c].pc = "false"]
    /\ UNCHANGED <<settings, listening, handler>>

(* The goroutine of MakeNetwork receives the request. With done closed its *)
(* select may still take one.                                              *)
Receive(c) ==
    /\ call[c].pc = "send" /\ listening
    /\ call' = [call EXCEPT ![c].pc = "read"]
    /\ UNCHANGED <<settings, listening, handler>>

StopListening ==
    /\ done /\ listening
    /\ listening' = FALSE
    /\ UNCHANGED <<settings, call, handler>>

(* Seeded fault: processReq does not ask whether the name has a server. *)
readEndnameInfoNil(c) ==
    LET e == call[c].end
    IN  /\ call[c].pc = "read"
        /\ call' = [call EXCEPT ![c] =
                       IF e \in enabled
                       THEN [pc |-> "accepted", end |-> e, server |-> servers[e[3]],
                             reliable |-> reliable, longreordering |-> longReordering]
                       ELSE [@ EXCEPT !.pc = "refused"]]
        /\ UNCHANGED <<settings, listening, handler>>

(* processReq begins with readEndnameInfo: what it finds stays as it was,  *)
(* whatever happens to the network meanwhile.                              *)
readEndnameInfo(c) ==
    LET e == call[c].end
        found == e \in enabled /\ e \in ends /\ servers[e[3]] # NoInstance
    IN  /\ call[c].pc = "read"
        /\ call' = [call EXCEPT ![c] =
                       IF found
                       THEN [pc |-> "accepted", end |-> e, server |-> servers[e[3]],
                             reliable |-> reliable, longreordering |-> longReordering]
                       ELSE [@ EXCEPT !.pc = "refused"]]
        /\ UNCHANGED <<settings, listening, handler>>

(* No reply and eventual timeout: the timer of a refused request fires. *)
Timeout(c) ==
    /\ call[c].pc = "refused"
    /\ call' = [call EXCEPT ![c].pc = "false"]
    /\ UNCHANGED <<settings, listening, handler>>

DropRequest(c) ==
    /\ call[c].pc = "accepted" /\ ~call[c].reliable
    /\ call' = [call EXCEPT ![c].pc = "false"]
    /\ UNCHANGED <<settings, listening, handler>>

(* The goroutine that calls server.dispatch, of the server found above.    *)
(* The handler may be one that never returns.                              *)
StartHandler(c) ==
    /\ call[c].pc = "accepted"
    /\ call' = [call EXCEPT ![c].pc = "wait"]
    /\ \E h \in {"running", "stuck"} : handler' = [handler EXCEPT ![c] = h]
    /\ UNCHANGED <<settings, listening>>

(* dispatch returns, what the handler did is up to the server. It runs to  *)
(* its end also when the call has been given up.                           *)
HandlerReturns(c) ==
    /\ handler[c] = "running"
    /\ handler' = [handler EXCEPT ![c] = "done"]
    /\ UNCHANGED <<settings, listening, call>>

ReceiveReply(c) ==
    /\ call[c].pc = "wait" /\ handler[c] = "done"
    /\ call' = [call EXCEPT ![c].pc = "answer"]
    /\ UNCHANGED <<settings, listening, handler>>

isServerDead(c) ==
    call[c].end \notin enabled \/ servers[Target(c)] # call[c].server

(* Seeded fault: the server is only asked for once the handler is done. *)
FindDeadLate(c) ==
    /\ call[c].pc = "wait" /\ handler[c] = "done" /\ isServerDead(c)
    /\ call' = [call EXCEPT ![c].pc = "dead"]
    /\ UNCHANGED <<settings, listening, handler>>

(* 100 ms without a reply. *)
FindDead(c) ==
    /\ call[c].pc = "wait" /\ isServerDead(c)
    /\ call' = [call EXCEPT ![c].pc = "dead"]
    /\ UNCHANGED <<settings, listening, handler>>

(* Seeded fault: a reply that was received is sent on without asking again. *)
AnswerUnasked(c) ==
    /\ call[c].pc \in {"answer", "dead"}
    /\ \E pc \in IF call[c].pc = "dead" THEN {"false"}
                 ELSE {"true"} \cup (IF call[c].reliable THEN {} ELSE {"false"}) :
          call' = [call EXCEPT ![c].pc = pc]
    /\ UNCHANGED <<settings, listening, handler>>

(* The server is asked for again, then the reply is dropped, sent at once, *)
(* or, with longReordering, left to a timer.                               *)
Answer(c) ==
    /\ call[c].pc \in {"answer", "dead"}
    /\ \E pc \in IF call[c].pc = "dead" \/ isServerDead(c) THEN {"false"}
                 ELSE {"true"} \cup (IF call[c].reliable THEN {} ELSE {"false"})
                               \cup (IF call[c].longreordering THEN {"reply"} ELSE {}) :
          call' = [call EXCEPT ![c].pc = pc]
    /\ UNCHANGED <<settings, listening, handler>>

(* The timer of a delayed reply fires. *)
DeliverReply(c) ==
    /\ call[c].pc = "reply"
    /\ call' = [call EXCEPT ![c].pc = "true"]
    /\ UNCHANGED <<settings, listening, handler>>

(* What the network does for the call c by itself. *)
Process(c) ==
    \/ CallNoNetwork(c) \/ Receive(c) \/ readEndnameInfo(c) \/ Timeout(c)
    \/ DropRequest(c) \/ StartHandler(c) \/ ReceiveReply(c) \/ FindDead(c)
    \/ Answer(c) \/ DeliverReply(c)
=============================================================================
