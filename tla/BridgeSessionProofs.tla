------------------------- MODULE BridgeSessionProofs -------------------------
(***************************************************************************)
(* Proofs about BridgeSession, for every set of addresses, every number of *)
(* frames and changes, and every capacity of the event channel.  The       *)
(* inductive invariant IInv ties the policy and every snapshot on its way  *)
(* to the answer about the firewall rules, and counts the frames a session *)
(* has answered against what it has taken from the stream.                 *)
(***************************************************************************)
EXTENDS BridgeSession, Integers, TLAPS

\* TypeOK in parts: the places of the actors, the pieces of the stream, the events and
\* notices, and the endpoints.
PlacesTyped ==
    /\ phase \in {"accepting", "hello", "discover", "compare", "loop", "dialog", "writing", "ended"}
    /\ ending \in {"none", "refused", "closed", "lost", "repeated-hello", "frame"}
    /\ purpose \in {"none", "first", "push", "answer", "answer-with-snapshot", "event"}
    /\ reader \in {"aligned", "in-length", "in-body", "swallowing"}
    /\ task \in {"started", "looking", "found", "asking", "waiting"}
    /\ rules \in {"unknown", "yes", "no"}

FlagsTyped == finished \in BOOLEAN /\ lagged \in BOOLEAN /\ looked \in BOOLEAN

StreamTyped ==
    /\ arrived \in 0 .. Pieces * MaxFrames
    /\ taken \in 0 .. arrived /\ partial \in 0 .. Pieces - 1
    /\ answered \in 0 .. MaxFrames

NoticesTyped ==
    /\ waiting \in 0 .. EventCapacity
    /\ changes \in 0 .. MaxChanges /\ notice \in 0 .. changes /\ taskNotice \in 0 .. changes

EndpointsTyped ==
    /\ network \in Networks /\ policy \in States /\ policyNew \in BOOLEAN
    /\ snapshot \in Snapshots /\ view \in Snapshots
    /\ IF phase = "compare" THEN message \in Networks ELSE message \in Snapshots

\* A frame has been read and its answer is still to be written.
Asked == phase = "dialog" \/ purpose \in {"answer", "answer-with-snapshot"}

\* Every answer stands for a frame that was taken whole; only the read_frame that runs holds
\* pieces; a session that has a command in hand is busy with it.
FrameInv ==
    /\ Pieces * answered <= taken - partial
    /\ Asked => Pieces * (answered + 1) <= taken - partial
    /\ partial > 0 => reader = "aligned"
    /\ phase \in {"accepting", "hello", "loop", "dialog"} => purpose = "none"

\* While nothing was dropped the session reads where a frame begins, and a page that has
\* finished has sent whole frames.
AlignedInv ==
    /\ reader = "aligned" => \E n \in Nat : taken - partial = Pieces * n
    /\ finished => \E n \in Nat : arrived = Pieces * n

\* A policy that lets public addresses through, and a snapshot that shows one, come after the
\* firewall rules; rules that are asked for are not known yet.
AuthInv ==
    /\ policy = "available" => rules = "yes"
    /\ task = "asking" => rules = "unknown"
    /\ phase # "compare" /\ message.public # NoPublic => rules = "yes"
    /\ PublicOnlyAuthorized

Typed == PlacesTyped /\ FlagsTyped /\ StreamTyped /\ NoticesTyped /\ EndpointsTyped
IInv  == Typed /\ FrameInv /\ AlignedInv /\ AuthInv

-----------------------------------------------------------------------------
\* The parts are the whole type invariant.
LEMMA TypedIsTypeOK ==
    Typed => TypeOK
BY DEF Typed, PlacesTyped, FlagsTyped, StreamTyped, NoticesTyped, EndpointsTyped, TypeOK

\* A snapshot shows a public address only when the policy lets it through.
LEMMA VisibleFacts ==
    ASSUME NEW n \in Networks, NEW s \in States
    PROVE  /\ Visible(n, s) \in Snapshots
           /\ Visible(n, s).public # NoPublic => s = "available"
BY DEF Visible, Networks, Snapshots

\* The numbers of the stream.
LEMMA StreamNumbers ==
    ASSUME StreamTyped
    PROVE  /\ answered \in Nat /\ taken \in Nat /\ arrived \in Nat /\ partial \in {0, 1, 2}
           /\ taken <= arrived /\ arrived <= 3 * MaxFrames
BY BoundsAssumption DEF StreamTyped, Pieces

\* The initial state satisfies the invariant.
LEMMA InitSound ==
    Init => IInv
<1> SUFFICES ASSUME Init PROVE IInv
    OBVIOUS
<1>1. network \in Networks /\ policy \in {"authorizing", "not-present"} /\ policy \in States
    BY DEF Init, States
<1>2. snapshot \in Snapshots /\ snapshot.public = NoPublic /\ view = snapshot /\ message = snapshot
    BY <1>1, VisibleFacts DEF Init
<1>3. PlacesTyped /\ FlagsTyped
    BY DEF Init, PlacesTyped, FlagsTyped
<1>4. StreamTyped
    BY BoundsAssumption DEF Init, StreamTyped, Pieces
<1>5. NoticesTyped
    BY BoundsAssumption, CapacityAssumption DEF Init, NoticesTyped
<1>6. EndpointsTyped
    BY <1>1, <1>2 DEF Init, EndpointsTyped
<1>7. FrameInv
    BY DEF Init, FrameInv, Asked, Pieces
<1>8. AlignedInv
    <2>1. taken - partial = Pieces * 0 /\ ~finished
        BY DEF Init, Pieces
    <2> QED
        BY <2>1 DEF AlignedInv
<1>9. AuthInv
    BY <1>1, <1>2 DEF Init, AuthInv, PublicOnlyAuthorized
<1> QED
    BY <1>3, <1>4, <1>5, <1>6, <1>7, <1>8, <1>9 DEF IInv, Typed

\* Every step keeps the places of the actors.
LEMMA PlacesKept ==
    PlacesTyped /\ [Next]_vars => PlacesTyped'
<1> SUFFICES ASSUME PlacesTyped, [Next]_vars PROVE PlacesTyped'
    OBVIOUS
<1> USE DEF firewall, reading
<1>1. CASE LookAtNetwork
    BY <1>1 DEF LookAtNetwork, PlacesTyped
<1>2. CASE Decide
    BY <1>2 DEF Decide, SetPolicy, PlacesTyped
<1>3. CASE RulesAnswered
    BY <1>3 DEF RulesAnswered, PlacesTyped
<1>4. CASE TaskNoticed
    BY <1>4 DEF TaskNoticed, PlacesTyped
<1>5. CASE AcceptStream
    BY <1>5 DEF AcceptStream, PlacesTyped
<1>6. CASE Authenticate
    BY <1>6 DEF Authenticate, PlacesTyped
<1>7. CASE Refuse
    BY <1>7 DEF Refuse, End, PlacesTyped
<1>8. CASE ConnectionLost
    BY <1>8 DEF ConnectionLost, End, PlacesTyped
<1>9. CASE FrameRead
    BY <1>9 DEF FrameRead, End, PlacesTyped
<1>10. CASE StreamEnds
    BY <1>10 DEF StreamEnds, End, PlacesTyped
<1>11. CASE MisreadFrame
    BY <1>11 DEF MisreadFrame, End, PlacesTyped
<1>12. CASE DialogAnswered
    BY <1>12 DEF DialogAnswered, PlacesTyped
<1>13. CASE ForwardEvent
    BY <1>13 DEF ForwardEvent, DropRead, PlacesTyped
<1>14. CASE EndpointsNoticed
    BY <1>14 DEF EndpointsNoticed, DropRead, PlacesTyped
<1>15. CASE Discover
    BY <1>15 DEF Discover, PlacesTyped
<1>16. CASE Compare
    BY <1>16 DEF Compare, PlacesTyped
<1>17. CASE WriteFrame
    BY <1>17 DEF WriteFrame, PlacesTyped
<1>18. CASE UNCHANGED <<phase, ending, purpose, reader, task, rules>>
    BY <1>18 DEF PlacesTyped
<1> QED
    BY <1>1, <1>2, <1>3, <1>4, <1>5, <1>6, <1>7, <1>8, <1>9, <1>10, <1>11, <1>12, <1>13, <1>14,
       <1>15, <1>16, <1>17, <1>18
       DEF Next, Outside, FirewallTask, Session, Read, vars, NetworkChanges, PieceArrives,
           PageFinishes, PublishEvent, TakePiece

\* Every step keeps the flags.
LEMMA FlagsKept ==
    FlagsTyped /\ [Next]_vars => FlagsTyped'
<1> SUFFICES ASSUME FlagsTyped, [Next]_vars PROVE FlagsTyped'
    OBVIOUS
<1> USE DEF events, firewall, stream
<1>1. CASE PageFinishes
    BY <1>1 DEF PageFinishes, FlagsTyped, HasPublic
<1>2. CASE PublishEvent
    BY <1>2 DEF PublishEvent, FlagsTyped, HasPublic
<1>3. CASE LookAtNetwork
    BY <1>3 DEF LookAtNetwork, FlagsTyped, HasPublic
<1>4. CASE Decide
    BY <1>4 DEF Decide, SetPolicy, FlagsTyped, HasPublic
<1>5. CASE ForwardEvent
    BY <1>5 DEF ForwardEvent, DropRead, FlagsTyped, HasPublic
<1>6. CASE UNCHANGED <<finished, lagged, looked>>
    BY <1>6 DEF FlagsTyped
<1> QED
    BY <1>1, <1>2, <1>3, <1>4, <1>5, <1>6
       DEF Next, Outside, FirewallTask, Session, Read, vars, NetworkChanges, PieceArrives,
           RulesAnswered, TaskNoticed, AcceptStream, Authenticate, Refuse, ConnectionLost,
           TakePiece, FrameRead, StreamEnds, MisreadFrame, DialogAnswered, EndpointsNoticed,
           Discover, Compare, WriteFrame, DropRead, End

\* Nothing is taken that has not arrived, and no frame is answered twice.
LEMMA StreamKept ==
    StreamTyped /\ FrameInv /\ [Next]_vars => StreamTyped'
<1> SUFFICES ASSUME StreamTyped /\ FrameInv, [Next]_vars PROVE StreamTyped'
    OBVIOUS
<1> USE DEF reading, stream
<1>1. CASE PieceArrives
    BY <1>1, StreamNumbers, BoundsAssumption DEF PieceArrives, FrameInv, Asked, Pieces, StreamTyped
<1>2. CASE TakePiece
    BY <1>2, StreamNumbers, BoundsAssumption DEF TakePiece, FrameInv, Asked, Pieces, StreamTyped
<1>3. CASE FrameRead
    BY <1>3, StreamNumbers, BoundsAssumption
       DEF FrameRead, End, FrameInv, Asked, Pieces, StreamTyped
<1>4. CASE MisreadFrame
    BY <1>4, StreamNumbers, BoundsAssumption
       DEF MisreadFrame, End, FrameInv, Asked, Pieces, StreamTyped
<1>5. CASE ForwardEvent
    BY <1>5, StreamNumbers, BoundsAssumption
       DEF ForwardEvent, DropRead, FrameInv, Asked, Pieces, StreamTyped
<1>6. CASE EndpointsNoticed
    BY <1>6, StreamNumbers, BoundsAssumption
       DEF EndpointsNoticed, DropRead, FrameInv, Asked, Pieces, StreamTyped
<1>7. CASE WriteFrame
    BY <1>7, StreamNumbers, BoundsAssumption DEF WriteFrame, FrameInv, Asked, Pieces, StreamTyped
<1>8. CASE UNCHANGED <<arrived, taken, partial, answered>>
    BY <1>8 DEF StreamTyped
<1> QED
    BY <1>1, <1>2, <1>3, <1>4, <1>5, <1>6, <1>7, <1>8
       DEF Next, Outside, FirewallTask, Session, Read, vars, NetworkChanges, PageFinishes,
           PublishEvent, LookAtNetwork, Decide, RulesAnswered, TaskNoticed, AcceptStream,
           Authenticate, Refuse, ConnectionLost, StreamEnds, DialogAnswered, Discover, Compare,
           End, SetPolicy

\* There are never more notices than changes, nor more events than fit.
LEMMA NoticesKept ==
    NoticesTyped /\ [Next]_vars => NoticesTyped'
<1> SUFFICES ASSUME NoticesTyped, [Next]_vars PROVE NoticesTyped'
    OBVIOUS
<1> USE DEF events, notices, world
<1>1. CASE NetworkChanges
    BY <1>1, BoundsAssumption, CapacityAssumption DEF NetworkChanges, NoticesTyped
<1>2. CASE PublishEvent
    BY <1>2, BoundsAssumption, CapacityAssumption DEF PublishEvent, NoticesTyped
<1>3. CASE TaskNoticed
    BY <1>3, BoundsAssumption, CapacityAssumption DEF TaskNoticed, NoticesTyped
<1>4. CASE Authenticate
    BY <1>4, BoundsAssumption, CapacityAssumption DEF Authenticate, NoticesTyped
<1>5. CASE ForwardEvent
    BY <1>5, BoundsAssumption, CapacityAssumption DEF ForwardEvent, DropRead, NoticesTyped
<1>6. CASE EndpointsNoticed
    BY <1>6, BoundsAssumption, CapacityAssumption DEF EndpointsNoticed, DropRead, NoticesTyped
<1>7. CASE UNCHANGED <<waiting, changes, notice, taskNotice>>
    BY <1>7 DEF NoticesTyped
<1> QED
    BY <1>1, <1>2, <1>3, <1>4, <1>5, <1>6, <1>7
       DEF Next, Outside, FirewallTask, Session, Read, vars, PieceArrives, PageFinishes,
           LookAtNetwork, Decide, RulesAnswered, AcceptStream, Refuse, ConnectionLost, TakePiece,
           FrameRead, StreamEnds, MisreadFrame, DialogAnswered, Discover, Compare, WriteFrame,
           End, SetPolicy

\* What is discovered, compared, sent and kept is a set of endpoints.
LEMMA EndpointsKept ==
    EndpointsTyped /\ [Next]_vars => EndpointsTyped'
<1> SUFFICES ASSUME EndpointsTyped, [Next]_vars PROVE EndpointsTyped'
    OBVIOUS
<1> USE DEF endpoints, notices, world
<1>1. CASE NetworkChanges
    BY <1>1 DEF NetworkChanges, EndpointsTyped, States
<1>2. CASE Decide
    BY <1>2 DEF Decide, SetPolicy, EndpointsTyped, States
<1>3. CASE AcceptStream
    BY <1>3 DEF AcceptStream, EndpointsTyped, States
<1>4. CASE Authenticate
    BY <1>4 DEF Authenticate, EndpointsTyped, States
<1>5. CASE Refuse
    BY <1>5 DEF Refuse, End, EndpointsTyped, States
<1>6. CASE ConnectionLost
    BY <1>6 DEF ConnectionLost, End, EndpointsTyped, States
<1>7. CASE FrameRead
    BY <1>7 DEF FrameRead, End, EndpointsTyped, States
<1>8. CASE StreamEnds
    BY <1>8 DEF StreamEnds, End, EndpointsTyped, States
<1>9. CASE MisreadFrame
    BY <1>9 DEF MisreadFrame, End, EndpointsTyped, States
<1>10. CASE DialogAnswered
    BY <1>10 DEF DialogAnswered, EndpointsTyped, States
<1>11. CASE ForwardEvent
    BY <1>11 DEF ForwardEvent, DropRead, EndpointsTyped, States
<1>12. CASE EndpointsNoticed
    BY <1>12 DEF EndpointsNoticed, DropRead, EndpointsTyped, States
<1>13. CASE Discover
    BY <1>13 DEF Discover, EndpointsTyped, States
<1>14. CASE Compare
    BY <1>14, VisibleFacts DEF Compare, EndpointsTyped, States
<1>15. CASE WriteFrame
    BY <1>15 DEF WriteFrame, EndpointsTyped, States
<1>16. CASE UNCHANGED <<network, policy, policyNew, snapshot, view, message, phase>>
    BY <1>16 DEF EndpointsTyped
<1> QED
    BY <1>1, <1>2, <1>3, <1>4, <1>5, <1>6, <1>7, <1>8, <1>9, <1>10, <1>11, <1>12, <1>13, <1>14,
       <1>15, <1>16
       DEF Next, Outside, FirewallTask, Session, Read, vars, PieceArrives, PageFinishes,
           PublishEvent, LookAtNetwork, RulesAnswered, TaskNoticed, TakePiece

\* No step answers a frame that was not read.
LEMMA FramesKept ==
    StreamTyped /\ FrameInv /\ [Next]_vars => FrameInv'
<1> SUFFICES ASSUME StreamTyped /\ FrameInv, [Next]_vars PROVE FrameInv'
    OBVIOUS
<1> USE DEF reading
<1>1. CASE AcceptStream
    BY <1>1, StreamNumbers DEF AcceptStream, FrameInv, Asked, Pieces
<1>2. CASE Authenticate
    BY <1>2, StreamNumbers DEF Authenticate, FrameInv, Asked, Pieces
<1>3. CASE Refuse
    BY <1>3, StreamNumbers DEF Refuse, End, FrameInv, Asked, Pieces
<1>4. CASE ConnectionLost
    BY <1>4, StreamNumbers DEF ConnectionLost, End, FrameInv, Asked, Pieces
<1>5. CASE TakePiece
    BY <1>5, StreamNumbers DEF TakePiece, FrameInv, Asked, Pieces
<1>6. CASE FrameRead
    BY <1>6, StreamNumbers DEF FrameRead, End, FrameInv, Asked, Pieces
<1>7. CASE StreamEnds
    BY <1>7, StreamNumbers DEF StreamEnds, End, FrameInv, Asked, Pieces
<1>8. CASE MisreadFrame
    BY <1>8, StreamNumbers DEF MisreadFrame, End, FrameInv, Asked, Pieces
<1>9. CASE DialogAnswered
    BY <1>9, StreamNumbers DEF DialogAnswered, FrameInv, Asked, Pieces
<1>10. CASE ForwardEvent
    BY <1>10, StreamNumbers DEF ForwardEvent, DropRead, FrameInv, Asked, Pieces
<1>11. CASE EndpointsNoticed
    BY <1>11, StreamNumbers DEF EndpointsNoticed, DropRead, FrameInv, Asked, Pieces
<1>12. CASE Discover
    BY <1>12, StreamNumbers DEF Discover, FrameInv, Asked, Pieces
<1>13. CASE Compare
    BY <1>13, StreamNumbers DEF Compare, FrameInv, Asked, Pieces
<1>14. CASE WriteFrame
    BY <1>14, StreamNumbers DEF WriteFrame, FrameInv, Asked, Pieces
<1>15. CASE UNCHANGED <<answered, taken, partial, reader, phase, purpose>>
    BY <1>15 DEF FrameInv, Asked
<1> QED
    BY <1>1, <1>2, <1>3, <1>4, <1>5, <1>6, <1>7, <1>8, <1>9, <1>10, <1>11, <1>12, <1>13, <1>14,
       <1>15
       DEF Next, Outside, FirewallTask, Session, Read, vars, NetworkChanges, PieceArrives,
           PageFinishes, PublishEvent, LookAtNetwork, Decide, RulesAnswered, TaskNoticed,
           SetPolicy

\* No step lets a public address through before the rules.
LEMMA AuthorizationKept ==
    EndpointsTyped /\ AuthInv /\ [Next]_vars => AuthInv'
<1> SUFFICES ASSUME EndpointsTyped /\ AuthInv, [Next]_vars PROVE AuthInv'
    OBVIOUS
<1> USE DEF endpoints, firewall
<1>1. CASE LookAtNetwork
    BY <1>1 DEF LookAtNetwork, EndpointsTyped, AuthInv, PublicOnlyAuthorized
<1>2. CASE Decide
    BY <1>2 DEF Decide, SetPolicy, EndpointsTyped, AuthInv, PublicOnlyAuthorized
<1>3. CASE RulesAnswered
    BY <1>3 DEF RulesAnswered, EndpointsTyped, AuthInv, PublicOnlyAuthorized
<1>4. CASE TaskNoticed
    BY <1>4 DEF TaskNoticed, EndpointsTyped, AuthInv, PublicOnlyAuthorized
<1>5. CASE AcceptStream
    BY <1>5 DEF AcceptStream, EndpointsTyped, AuthInv, PublicOnlyAuthorized
<1>6. CASE Authenticate
    BY <1>6 DEF Authenticate, EndpointsTyped, AuthInv, PublicOnlyAuthorized
<1>7. CASE Refuse
    BY <1>7 DEF Refuse, End, EndpointsTyped, AuthInv, PublicOnlyAuthorized
<1>8. CASE ConnectionLost
    BY <1>8 DEF ConnectionLost, End, EndpointsTyped, AuthInv, PublicOnlyAuthorized
<1>9. CASE FrameRead
    BY <1>9 DEF FrameRead, End, EndpointsTyped, AuthInv, PublicOnlyAuthorized
<1>10. CASE StreamEnds
    BY <1>10 DEF StreamEnds, End, EndpointsTyped, AuthInv, PublicOnlyAuthorized
<1>11. CASE MisreadFrame
    BY <1>11 DEF MisreadFrame, End, EndpointsTyped, AuthInv, PublicOnlyAuthorized
<1>12. CASE DialogAnswered
    BY <1>12 DEF DialogAnswered, EndpointsTyped, AuthInv, PublicOnlyAuthorized
<1>13. CASE ForwardEvent
    BY <1>13 DEF ForwardEvent, DropRead, EndpointsTyped, AuthInv, PublicOnlyAuthorized
<1>14. CASE EndpointsNoticed
    BY <1>14 DEF EndpointsNoticed, DropRead, EndpointsTyped, AuthInv, PublicOnlyAuthorized
<1>15. CASE Discover
    BY <1>15 DEF Discover, EndpointsTyped, AuthInv, PublicOnlyAuthorized
<1>16. CASE Compare
    BY <1>16, VisibleFacts DEF Compare, EndpointsTyped, AuthInv, PublicOnlyAuthorized
<1>17. CASE WriteFrame
    BY <1>17 DEF WriteFrame, EndpointsTyped, AuthInv, PublicOnlyAuthorized
<1>18. CASE UNCHANGED <<policy, rules, task, phase, message, snapshot, view>>
    BY <1>18 DEF AuthInv, PublicOnlyAuthorized
<1> QED
    BY <1>1, <1>2, <1>3, <1>4, <1>5, <1>6, <1>7, <1>8, <1>9, <1>10, <1>11, <1>12, <1>13, <1>14,
       <1>15, <1>16, <1>17, <1>18
       DEF Next, Outside, FirewallTask, Session, Read, vars, NetworkChanges, PieceArrives,
           PageFinishes, PublishEvent, TakePiece

-----------------------------------------------------------------------------
(* Where frames begin *)

\* A number that leaves no remainder is a multiple.
LEMMA Multiples ==
    ASSUME NEW a \in Nat, a % Pieces = 0
    PROVE  \E n \in Nat : a = Pieces * n
<1>1. a \div 3 \in Nat /\ a = 3 * (a \div 3)
    BY DEF Pieces
<1> QED
    BY <1>1 DEF Pieces

\* A dropped read_frame that had taken something is not aligned any more.
LEMMA DropKeepsAligned ==
    ASSUME StreamTyped, AlignedInv, DropRead, UNCHANGED <<finished, arrived>>
    PROVE  AlignedInv'
<1>1. partial \in {0, 1, 2} /\ taken \in Nat
    BY StreamNumbers
<1>2. reader' = "aligned" => reader = "aligned" /\ partial = 0 /\ partial' = 0 /\ taken' = taken
    BY <1>1 DEF DropRead
<1> QED
    BY <1>2 DEF AlignedInv

\* No step leaves the session inside a frame without its noticing, while nothing is dropped.
LEMMA AlignmentKept ==
    StreamTyped /\ AlignedInv /\ [Next]_vars => AlignedInv'
<1> SUFFICES ASSUME StreamTyped, AlignedInv, [Next]_vars PROVE AlignedInv'
    OBVIOUS
<1> USE DEF reading, stream
<1>1. CASE PieceArrives
    BY <1>1 DEF PieceArrives, AlignedInv
<1>2. CASE PageFinishes
    <2>1. arrived \in Nat /\ arrived % Pieces = 0 /\ UNCHANGED <<taken, partial, reader, arrived>>
        BY <1>2, StreamNumbers DEF PageFinishes
    <2> QED
        BY <2>1, Multiples DEF AlignedInv
<1>3. CASE TakePiece
    <2>1. taken' - partial' = taken - partial /\ UNCHANGED <<reader, finished, arrived>>
        BY <1>3, StreamNumbers DEF TakePiece
    <2> QED
        BY <2>1 DEF AlignedInv
<1>4. CASE FrameRead
    <2>1. /\ reader = "aligned" /\ taken' = taken + 1 /\ partial = 2 /\ partial' = 0 /\ taken \in Nat
          /\ UNCHANGED <<reader, finished, arrived>>
        BY <1>4, StreamNumbers DEF FrameRead, Pieces
    <2>2. PICK n \in Nat : taken - partial = Pieces * n
        BY <2>1 DEF AlignedInv
    <2>3. n + 1 \in Nat /\ taken' - partial' = Pieces * (n + 1)
        BY <2>1, <2>2 DEF Pieces
    <2> QED
        BY <2>1, <2>3 DEF AlignedInv
<1>5. CASE MisreadFrame
    BY <1>5 DEF MisreadFrame, AlignedInv
<1>6. CASE ForwardEvent \/ EndpointsNoticed
    BY <1>6, DropKeepsAligned DEF ForwardEvent, EndpointsNoticed
<1>7. CASE UNCHANGED <<finished, arrived, taken, partial, reader>>
    BY <1>7 DEF AlignedInv
<1> QED
    BY <1>1, <1>2, <1>3, <1>4, <1>5, <1>6, <1>7
       DEF Next, Outside, FirewallTask, Session, Read, vars, NetworkChanges, PublishEvent,
           LookAtNetwork, Decide, RulesAnswered, TaskNoticed, AcceptStream, Authenticate, Refuse,
           ConnectionLost, StreamEnds, DialogAnswered, Discover, Compare, WriteFrame

-----------------------------------------------------------------------------
(* The theorems *)

\* IInv holds in every reachable state of a session (bridge.rs, run_session).
THEOREM BridgeSound ==
    Spec => []IInv
<1>1. IInv /\ [Next]_vars => IInv'
    BY PlacesKept, FlagsKept, StreamKept, NoticesKept, EndpointsKept, FramesKept, AlignmentKept,
       AuthorizationKept
       DEF IInv, Typed
<1> QED
    BY <1>1, InitSound, PTL DEF Spec

\* The variables keep their types, and the bounds of the queues.
THEOREM BridgeTyped ==
    Spec => []TypeOK
<1>1. IInv => TypeOK
    BY TypedIsTypeOK DEF IInv
<1> QED
    BY <1>1, BridgeSound, PTL

\* Neither the page nor endpoint_snapshot ever holds a public address before the firewall rules
\* are confirmed, although addresses and policy are read one after the other.
THEOREM PublicAddressesWait ==
    Spec => []PublicOnlyAuthorized
<1>1. IInv => PublicOnlyAuthorized
    BY DEF IInv, AuthInv
<1> QED
    BY <1>1, BridgeSound, PTL

\* The answer about the firewall rules is final: maintain_public_ipv6_firewall never asks twice,
\* however often the addresses change.
THEOREM RulesAskedOnce ==
    Spec => [][rules = "unknown" \/ rules' = rules]_vars
<1>1. IInv /\ [Next]_vars => [rules = "unknown" \/ rules' = rules]_vars
    <2> SUFFICES ASSUME IInv, Next PROVE rules = "unknown" \/ rules' = rules
        OBVIOUS
    <2>1. CASE RulesAnswered
        BY <2>1 DEF RulesAnswered, IInv, AuthInv
    <2>2. CASE Outside \/ LookAtNetwork \/ Decide \/ TaskNoticed
        BY <2>2
           DEF Outside, NetworkChanges, PieceArrives, PageFinishes, PublishEvent, LookAtNetwork,
                    Decide, TaskNoticed, firewall
    <2>3. CASE Session
        BY <2>3 DEF Session, Read, AcceptStream, Authenticate, Refuse, ConnectionLost, TakePiece,
                    FrameRead, StreamEnds, MisreadFrame, DialogAnswered, ForwardEvent,
                    EndpointsNoticed, Discover, Compare, WriteFrame, firewall
    <2> QED
        BY <2>1, <2>2, <2>3 DEF Next, FirewallTask
<1> QED
    BY <1>1, BridgeSound, PTL DEF Spec

\* The session never writes more answers than it has read frames, also after a lost piece has
\* put it out of step with the stream.
THEOREM EveryAnswerHasItsFrame ==
    Spec => [](Pieces * answered <= taken)
<1>1. IInv => Pieces * answered <= taken
    BY StreamNumbers DEF IInv, Typed, FrameInv, Pieces
<1> QED
    BY <1>1, BridgeSound, PTL

\* A page that finishes its stream behind a whole frame is not taken for one that broke off,
\* as long as no read_frame was dropped half-way: nothing of a frame is in hand at the end.
THEOREM CleanEndIsSeen ==
    Spec => [](finished /\ taken = arrived /\ reader = "aligned" => partial = 0)
<1>1. ASSUME IInv, finished, taken = arrived, reader = "aligned" PROVE partial = 0
    <2>1. partial \in {0, 1, 2} /\ taken \in Nat
        BY <1>1, StreamNumbers DEF IInv, Typed
    <2>2. PICK n \in Nat : taken - partial = Pieces * n
        BY <1>1 DEF IInv, AlignedInv
    <2>3. PICK m \in Nat : taken = Pieces * m
        BY <1>1 DEF IInv, AlignedInv
    <2> QED
        BY <2>1, <2>2, <2>3 DEF Pieces
<1> QED
    BY <1>1, BridgeSound, PTL
=============================================================================
