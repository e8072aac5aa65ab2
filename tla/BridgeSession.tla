--------------------------- MODULE BridgeSession ---------------------------
(* The session of the Agent's Bridge (bridge.rs), the policy that says      *)
(* whether public IPv6 endpoints may be published (network_endpoints.rs),   *)
(* and the task that asks for the firewall rules (launch.rs).               *)
(*                                                                          *)
(* run_session selects between a frame of the page, an event of the file    *)
(* manager, and two kinds of notice about endpoints.  A branch that loses   *)
(* is dropped, and with it whatever the half-done read_frame had taken from *)
(* the stream.  A frame is three pieces here: the first byte of the length, *)
(* the rest of the length, the body.                                        *)
EXTENDS Naturals, FiniteSets

CONSTANTS
    Publics,        \* public IPv6 addresses this machine can have
    NoPublic,       \* no public address
    Privates,       \* its private addresses
    MaxFrames,      \* frames the page sends (bound)
    EventCapacity,  \* events the broadcast channel keeps
    MaxChanges      \* changes of the network (bound)

ASSUME AddressAssumption == NoPublic \notin Publics /\ Privates # {}
ASSUME BoundsAssumption == MaxFrames \in Nat /\ MaxChanges \in Nat
ASSUME CapacityAssumption == EventCapacity \in Nat \ {0}

Pieces == 3

VARIABLES
    phase,      \* where run_session is
    ending,     \* why it ended
    purpose,    \* what the snapshot or the frame under way is for
    finished,   \* the page has finished the stream
    arrived,    \* pieces that reached the Agent
    taken,      \* pieces taken from the stream
    partial,    \* pieces in the hands of the read_frame that runs now
    reader,     \* is the next piece the first of a frame
    answered,   \* responses written
    waiting,    \* events in the channel
    lagged,     \* the channel has forgotten events the Bridge had not taken
    network,    \* the addresses of the machine
    changes,    \* how often they have changed
    task,       \* where maintain_public_ipv6_firewall is
    looked,     \* has_public_ipv6, as it found it
    rules,      \* are there firewall rules: authorization_result
    policy,     \* EndpointPolicy: public_ipv6_state
    taskNotice, \* notices of address changes for the task
    notice,     \* and for the Bridge
    policyNew,  \* the Bridge has not seen the latest policy
    snapshot,   \* endpoint_snapshot
    message,    \* the addresses discovered, then the snapshot in the frame under way
    view        \* the last snapshot the page has received

stream    == <<finished, arrived>>
reading   == <<taken, partial, reader>>
events    == <<waiting, lagged>>
world     == <<network, changes>>
firewall  == <<task, looked, rules>>
notices   == <<taskNotice, notice, policyNew>>
endpoints == <<snapshot, message, view>>
vars == <<phase, ending, purpose, stream, reading, answered, events, world, firewall, policy,
          notices, endpoints>>

Networks == [private : Privates, public : Publics \cup {NoPublic}]
States == {"not-present", "authorizing", "available", "unavailable"}

\* MUTANT of Visible: only a refusal hides a public address
VisibleUnlessRefused(n, state) ==
    [private |-> n.private,
     public  |-> IF state # "unavailable" THEN n.public ELSE NoPublic,
     state   |-> state]

\* NetworkEndpoints::published: public addresses only once they are available.
Visible(n, state) ==
    [private |-> n.private,
     public  |-> IF state = "available" THEN n.public ELSE NoPublic,
     state   |-> state]

Snapshots == [private : Privates, public : Publics \cup {NoPublic}, state : States]
HasPublic(n) == n.public # NoPublic

\* launch: the policy is decided before the server runs, and the callback shows it to the page.
Init ==
    /\ phase = "accepting" /\ ending = "none" /\ purpose = "none"
    /\ finished = FALSE /\ arrived = 0
    /\ taken = 0 /\ partial = 0 /\ reader = "aligned"
    /\ answered = 0
    /\ waiting = 0 /\ lagged = FALSE
    /\ network \in Networks /\ changes = 0
    /\ task = "started" /\ looked = FALSE /\ rules = "unknown"
    /\ policy = IF HasPublic(network) THEN "authorizing" ELSE "not-present"
    /\ taskNotice = 0 /\ notice = 0 /\ policyNew = FALSE
    /\ snapshot = Visible(network, policy)
    /\ message = snapshot /\ view = snapshot

-----------------------------------------------------------------------------
(* The machine, the page, and the file manager, while the session lasts *)

\* Both watchers hear of a change once they are registered; their channels are unbounded.
NetworkChanges ==
    /\ phase # "ended" /\ changes < MaxChanges
    /\ \E n \in Networks \ {network} : network' = n
    /\ changes' = changes + 1
    /\ taskNotice' = IF task = "started" THEN taskNotice ELSE taskNotice + 1
    /\ notice' = IF phase \in {"accepting", "hello"} THEN notice ELSE notice + 1
    /\ UNCHANGED <<phase, ending, purpose, stream, reading, answered, events, firewall, policy,
                   policyNew, endpoints>>

\* The page sends whole frames; the network hands them over piece by piece.
PieceArrives ==
    /\ phase # "ended" /\ ~finished /\ arrived < Pieces * MaxFrames
    /\ arrived' = arrived + 1
    /\ UNCHANGED <<phase, ending, purpose, finished, reading, answered, events, world, firewall,
                   policy, notices, endpoints>>

\* It closes the stream behind a whole frame.
PageFinishes ==
    /\ phase # "ended" /\ ~finished /\ arrived % Pieces = 0
    /\ finished' = TRUE
    /\ UNCHANGED <<phase, ending, purpose, arrived, reading, answered, events, world, firewall,
                   policy, notices, endpoints>>

\* Until the Bridge subscribes nobody listens.  A full channel forgets its oldest event.
PublishEvent ==
    /\ phase \notin {"accepting", "hello", "ended"}
    /\ IF waiting = EventCapacity
         THEN lagged' = TRUE /\ UNCHANGED waiting
         ELSE waiting' = waiting + 1 /\ UNCHANGED lagged
    /\ UNCHANGED <<phase, ending, purpose, stream, reading, answered, world, firewall, policy,
                   notices, endpoints>>

-----------------------------------------------------------------------------
(* maintain_public_ipv6_firewall *)

SetPolicy(state) ==
    /\ policy' = state
    /\ policyNew' = (policyNew \/ policy # state)

\* watch_changes, then the first look at the network.
LookAtNetwork ==
    /\ task \in {"started", "looking"}
    /\ task' = "found"
    /\ looked' = HasPublic(network)
    /\ UNCHANGED <<phase, ending, purpose, stream, reading, answered, events, world, rules, policy,
                   notices, endpoints>>

\* The rules are asked for once; afterwards the answer stands for every later address.
Decide ==
    /\ task = "found"
    /\ IF ~looked \/ rules # "unknown"
         THEN /\ SetPolicy(IF ~looked THEN "not-present"
                           ELSE IF rules = "yes" THEN "available" ELSE "unavailable")
              /\ task' = "waiting"
         ELSE /\ SetPolicy("authorizing")
              /\ task' = "asking"
    /\ looked' = FALSE
    /\ UNCHANGED <<phase, ending, purpose, stream, reading, answered, events, world, rules,
                   taskNotice, notice, endpoints>>

\* The rules exist, or the user allows them; or the query, the dialog or the task fails.  The
\* network is looked at again, and Decide does the rest with a known answer.
RulesAnswered ==
    /\ task = "asking"
    /\ \E answer \in {"yes", "no"} : rules' = answer
    /\ task' = "looking"
    /\ UNCHANGED <<phase, ending, purpose, stream, reading, answered, events, world, looked, policy,
                   notices, endpoints>>

TaskNoticed ==
    /\ task = "waiting" /\ taskNotice > 0
    /\ taskNotice' = taskNotice - 1
    /\ task' = "looking"
    /\ UNCHANGED <<phase, ending, purpose, stream, reading, answered, events, world, looked, rules,
                   policy, notice, policyNew, endpoints>>

-----------------------------------------------------------------------------
(* The beginning and the end of run_session *)

End(why) ==
    /\ phase' = "ended"
    /\ ending' = why

\* accept_bi within five seconds
AcceptStream ==
    /\ phase = "accepting"
    /\ phase' = "hello"
    /\ UNCHANGED <<ending, purpose, stream, reading, answered, events, world, firewall, policy,
                   notices, endpoints>>

\* The hello is right and acknowledged: subscribe to everything, then take a first snapshot.
Authenticate ==
    /\ phase = "hello"
    /\ phase' = "discover"
    /\ purpose' = "first"
    /\ notice' = 0 /\ policyNew' = FALSE
    /\ UNCHANGED <<ending, stream, reading, answered, events, world, firewall, policy, taskNotice,
                   endpoints>>

\* The stream or the hello does not come in time, is no hello, or is refused.
Refuse ==
    /\ phase \in {"accepting", "hello"}
    /\ End("refused")
    /\ UNCHANGED <<purpose, stream, reading, answered, events, world, firewall, policy, notices,
                   endpoints>>

\* The connection is lost: whatever the session reads or writes next fails.  A dialog and a
\* command that writes nothing notice nothing.
ConnectionLost ==
    /\ phase \in {"loop", "writing"}
    /\ End("lost")
    /\ UNCHANGED <<purpose, stream, reading, answered, events, world, firewall, policy, notices,
                   endpoints>>

-----------------------------------------------------------------------------
(* read_frame *)

\* Polled and not yet done: it holds what it has taken.
TakePiece ==
    /\ phase = "loop" /\ reader = "aligned"
    /\ taken < arrived /\ partial < Pieces - 1
    /\ taken' = taken + 1 /\ partial' = partial + 1
    /\ UNCHANGED <<phase, ending, purpose, stream, reader, answered, events, world, firewall, policy,
                   notices, endpoints>>

\* The last piece: a command.  It answers at once, asks for a snapshot to put into its answer,
\* or opens a dialog; a second hello ends the session.
FrameRead ==
    /\ phase = "loop" /\ reader = "aligned"
    /\ taken < arrived /\ partial = Pieces - 1
    /\ taken' = taken + 1 /\ partial' = 0
    /\ \/ /\ phase' = "writing" /\ purpose' = "answer"
          /\ UNCHANGED ending
       \/ /\ phase' = "discover" /\ purpose' = "answer-with-snapshot"
          /\ UNCHANGED ending
       \/ /\ phase' = "dialog"
          /\ UNCHANGED <<ending, purpose>>
       \/ /\ End("repeated-hello")
          /\ UNCHANGED purpose
    /\ UNCHANGED <<stream, reader, answered, events, world, firewall, policy, notices, endpoints>>

\* select-files answers, prepare-receive-transfer refuses or grants with a snapshot.
DialogAnswered ==
    /\ phase = "dialog"
    /\ \/ phase' = "writing" /\ purpose' = "answer"
       \/ phase' = "discover" /\ purpose' = "answer-with-snapshot"
    /\ UNCHANGED <<ending, stream, reading, answered, events, world, firewall, policy, notices,
                   endpoints>>

\* The stream ends where a frame could begin.
StreamEnds ==
    /\ phase = "loop" /\ reader = "aligned"
    /\ finished /\ taken = arrived /\ partial = 0
    /\ End("closed")
    /\ UNCHANGED <<purpose, stream, reading, answered, events, world, firewall, policy, notices,
                   endpoints>>

\* What follows a lost piece is taken for a frame.  A body read as a length is far too long; the
\* rest of a length, with the first byte of a body, can pass for the length of a long frame.
MisreadFrame ==
    /\ phase = "loop"
    /\ \/ /\ reader \in {"in-length", "in-body"} /\ taken < arrived
          /\ taken' = taken + 1
          /\ \/ End("frame") /\ UNCHANGED reader
             \/ /\ reader = "in-length"
                /\ reader' = "swallowing"
                /\ UNCHANGED <<phase, ending>>
       \/ /\ reader = "swallowing" /\ taken < arrived
          /\ taken' = taken + 1
          /\ UNCHANGED <<phase, ending, reader>>
       \/ /\ reader # "aligned" /\ finished /\ taken = arrived
          /\ End("frame")
          /\ UNCHANGED <<taken, reader>>
    /\ UNCHANGED <<purpose, stream, partial, answered, events, world, firewall, policy, notices,
                   endpoints>>

\* Another branch has won: the read_frame that ran is dropped, and the next one starts where it
\* stopped.
DropRead ==
    /\ partial' = 0
    /\ reader' = CASE partial = 1 -> "in-length"
                   [] partial = 2 -> "in-body"
                   [] OTHER       -> reader
    /\ UNCHANGED taken

-----------------------------------------------------------------------------
(* The other branches *)

\* recv reports what was forgotten first, and then goes on with the oldest event left.
ForwardEvent ==
    /\ phase = "loop" /\ (lagged \/ waiting > 0)
    /\ DropRead
    /\ IF lagged
         THEN lagged' = FALSE /\ UNCHANGED <<phase, purpose, waiting>>
         ELSE /\ waiting' = waiting - 1
              /\ phase' = "writing" /\ purpose' = "event"
              /\ UNCHANGED lagged
    /\ UNCHANGED <<ending, stream, answered, world, firewall, policy, notices, endpoints>>

\* MUTANT of EndpointsNoticed: the branch of the policy is missing
AddressesNoticed ==
    /\ phase = "loop"
    /\ notice > 0 /\ notice' = notice - 1
    /\ DropRead
    /\ phase' = "discover" /\ purpose' = "push"
    /\ UNCHANGED <<ending, stream, answered, events, world, firewall, policy, taskNotice, policyNew,
                   endpoints>>

EndpointsNoticed ==
    /\ phase = "loop"
    /\ \/ notice > 0 /\ notice' = notice - 1 /\ UNCHANGED policyNew
       \/ policyNew /\ policyNew' = FALSE /\ UNCHANGED notice
    /\ DropRead
    /\ phase' = "discover" /\ purpose' = "push"
    /\ UNCHANGED <<ending, stream, answered, events, world, firewall, policy, taskNotice, endpoints>>

\* EndpointPolicy::published: discover, and then the state, which may have moved on.
Discover ==
    /\ phase = "discover"
    /\ phase' = "compare"
    /\ message' = network
    /\ UNCHANGED <<ending, purpose, stream, reading, answered, events, world, firewall, policy,
                   notices, snapshot, view>>

\* The first snapshot is kept and not sent; a push is sent when it differs from the last one; an
\* answer carries what it found and leaves endpoint_snapshot alone.
Compare ==
    LET next == Visible(message, policy)
        sent == purpose = "answer-with-snapshot" \/ (purpose = "push" /\ next # snapshot)
    IN
    /\ phase = "compare"
    /\ phase' = IF sent THEN "writing" ELSE "loop"
    /\ purpose' = IF sent THEN purpose ELSE "none"
    /\ message' = IF sent THEN next ELSE view
    /\ snapshot' = IF purpose = "answer-with-snapshot" THEN snapshot ELSE next
    /\ UNCHANGED <<ending, stream, reading, answered, events, world, firewall, policy, notices, view>>

\* write_frame waits for the page to read.
WriteFrame ==
    /\ phase = "writing"
    /\ phase' = "loop"
    /\ purpose' = "none"
    /\ answered' = IF purpose \in {"answer", "answer-with-snapshot"} THEN answered + 1 ELSE answered
    /\ view' = IF purpose \in {"push", "answer-with-snapshot"} THEN message ELSE view
    /\ message' = view'
    /\ UNCHANGED <<ending, stream, reading, events, world, firewall, policy, notices, snapshot>>

-----------------------------------------------------------------------------
Outside == NetworkChanges \/ PieceArrives \/ PageFinishes \/ PublishEvent

FirewallTask == LookAtNetwork \/ Decide \/ RulesAnswered \/ TaskNoticed

Read == TakePiece \/ FrameRead \/ StreamEnds \/ MisreadFrame

Session ==
    \/ AcceptStream
    \/ Authenticate
    \/ Refuse
    \/ ConnectionLost
    \/ Read
    \/ DialogAnswered
    \/ ForwardEvent
    \/ EndpointsNoticed
    \/ Discover
    \/ Compare
    \/ WriteFrame

\* A session that has ended stops; so does everything else in the end.
Next == Outside \/ FirewallTask \/ Session

Spec == Init /\ [][Next]_vars

\* The runtime runs the firewall task, the user answers its dialog and those of a command, the
\* page reads what is written, and select! takes a ready branch at random: a branch that is
\* ready again and again is taken.
Fairness ==
    /\ WF_vars(FirewallTask)
    /\ WF_vars(DialogAnswered)
    /\ WF_vars(Discover \/ Compare)
    /\ WF_vars(WriteFrame)
    /\ SF_vars(EndpointsNoticed)

FairSpec == Spec /\ Fairness

-----------------------------------------------------------------------------
(* Properties *)

TypeOK ==
    /\ phase \in {"accepting", "hello", "discover", "compare", "loop", "dialog", "writing", "ended"}
    /\ ending \in {"none", "refused", "closed", "lost", "repeated-hello", "frame"}
    /\ purpose \in {"none", "first", "push", "answer", "answer-with-snapshot", "event"}
    /\ finished \in BOOLEAN /\ arrived \in 0 .. Pieces * MaxFrames
    /\ taken \in 0 .. arrived /\ partial \in 0 .. Pieces - 1
    /\ reader \in {"aligned", "in-length", "in-body", "swallowing"}
    /\ answered \in 0 .. MaxFrames
    /\ waiting \in 0 .. EventCapacity /\ lagged \in BOOLEAN
    /\ network \in Networks /\ looked \in BOOLEAN
    /\ changes \in 0 .. MaxChanges /\ notice \in 0 .. changes /\ taskNotice \in 0 .. changes
    /\ task \in {"started", "looking", "found", "asking", "waiting"}
    /\ rules \in {"unknown", "yes", "no"}
    /\ policy \in States /\ policyNew \in BOOLEAN
    /\ snapshot \in Snapshots /\ view \in Snapshots
    /\ IF phase = "compare" THEN message \in Networks ELSE message \in Snapshots

\* The page never learns of a public address before the firewall rules are confirmed, although
\* addresses and policy are read one after the other (published, maintain_public_ipv6_firewall).
PublicOnlyAuthorized ==
    \A s \in {snapshot, view} : s.public # NoPublic => rules = "yes"

\* What the policy should be, once the firewall task has nothing left to do.
Settled ==
    CASE ~HasPublic(network) -> "not-present"
      [] rules = "yes"       -> "available"
      [] rules = "no"        -> "unavailable"
      [] OTHER               -> "authorizing"

\* Once the network is quiet, the session has sent the endpoints that are right, or its first
\* snapshot was: no notice is lost between discover, the policy and the comparison
\* (run_session, set_public_ipv6_state, watch_changes).
EndpointsConverge ==
    <>[](phase \in {"accepting", "hello", "ended"} \/ snapshot = Visible(network, Settled))

\* "Each frame is a 4-byte big-endian JSON length and UTF-8 JSON" (docs/native-file-v1.md:36):
\* the page keeps to that, so the Agent does not fail the session over a frame.
WholeFramesAreRead ==
    ending # "frame"
=============================================================================
