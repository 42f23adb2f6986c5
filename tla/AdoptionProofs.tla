--------------------------- MODULE AdoptionProofs ---------------------------
(***************************************************************************)
(* Proofs about Adoption, for every set of sessions, every number of tries *)
(* and every set of environments.                                          *)
(***************************************************************************)
EXTENDS Adoption, TLAPS

HandlersType == [Sessions -> [Tries -> HandlerType]]

(* Trust: a fingerprint is known wherever one is handed on, from the       *)
(* handler to its answer or the file, from there to the session, and from  *)
(* the session to the row. Nobody forgets the row.                         *)
FileHasFp == adoption \in Sessions => adoptionFp # NoCert

HandlersHaveFp ==
    \A s \in Sessions, a \in Tries :
      h[s][a].pc \in {"truncate", "write", "users", "reload", "ok"} =>
        h[s][a].fp # NoCert

SessionsHaveFp ==
    \A s \in Sessions :
      ctl[s].pc \in {"verify", "saveTrust", "setAdopted"} =>
        ctl[s].fp # NoCert

RowHasTrust == reg.exists /\ reg.token # Nobody /\ reg.fp # NoCert

RowIsTrusted ==
    ~env.forget =>
      /\ reg.adopted => RowHasTrust
      /\ \A s \in Sessions : ctl[s].pc = "setAdopted" => RowHasTrust

TrustInv ==
    /\ TypeOK
    /\ FileHasFp
    /\ HandlersHaveFp
    /\ SessionsHaveFp
    /\ RowIsTrusted

(* Ownership: with sessions in turn and no reset, the handlers that are    *)
(* past the check for adoption.json all belong to the session whose file   *)
(* it is or will be.                                                       *)
Entered == Running \ {"sent"}
Busy(s) == Active(s) \/ \E a \in Tries : h[s][a].pc \in Running

OneSessionBusy == \A s, t \in Sessions : Busy(s) /\ Busy(t) => s = t

OwnerWrites ==
    adoption \in Sessions =>
      \A t \in Sessions, a \in Tries :
        h[t][a].pc \in Entered => t = adoption

WrittenStays ==
    \A t \in Sessions, a \in Tries :
      h[t][a].pc \in {"write", "users", "reload"} => adoption # Nobody

GrantedOwns ==
    \A s \in granted :
      /\ adoption \in {s, Torn}
      /\ \A t \in granted : t = s
      /\ \A t \in Sessions, a \in Tries : h[t][a].pc \in Entered => t = s

Owned ==
    /\ OneSessionBusy
    /\ OwnerWrites
    /\ WrittenStays
    /\ GrantedOwns

OwnerInv == TypeOK /\ (~env.concurrent /\ ~env.reset => Owned)

(* The contract: when, moreover, no call times out before its handler has  *)
(* written, at most one handler is on its way to write adoption.json, it   *)
(* is the one of the current call, and no session owns the file yet; so    *)
(* that the file of an owner stays, and a session that verified the node   *)
(* still owns it when it stores its trust.                                 *)
Orderly == ~env.late /\ ~env.concurrent /\ ~env.reset
OrderlyEnvironments ==
    \A e \in Environments : ~e.late /\ ~e.concurrent /\ ~e.reset

OneWriter ==
    \A s \in Sessions, a, b \in Tries :
      h[s][a].pc \in Unwritten /\ h[s][b].pc \in Unwritten => a = b

CurrentWriter ==
    \A s \in Sessions, a \in Tries :
      /\ ctl[s].pc = "idle" => ctl[s].try = 1
      /\ ctl[s].pc = "calling" /\ h[s][a].pc \in Unwritten =>
           a = ctl[s].try

WriterUnowned ==
    \A s \in Sessions, a \in Tries :
      h[s][a].pc \in Unwritten \ {"sent"} => adoption \notin Sessions

TrusterOwns == \A s \in Sessions : ctl[s].pc = "saveTrust" => adoption = s

ContractInv ==
    /\ OwnerInv
    /\ Orderly
    /\ OneWriter
    /\ CurrentWriter
    /\ WriterUnowned
    /\ TrusterOwns

(* Match: a session that verified the node finds its secrets, and a        *)
(* certificate with its key, until the row says so; the row of an adopted  *)
(* node keeps finding them. Nobody forgets the row.                        *)
VerifiedOwns ==
    \A s \in Sessions :
      ctl[s].pc \in {"saveTrust", "setAdopted"} =>
        adoption = s /\ cert = key /\ cert = ctl[s].fp

RowFollows ==
    \A s \in Sessions :
      ctl[s].pc = "setAdopted" => reg.token = s /\ reg.fp = ctl[s].fp

AdoptedMatches ==
    reg.adopted =>
      /\ reg.token \in Sessions
      /\ adoption = reg.token
      /\ reg.fp = cert /\ cert = key

Matches == VerifiedOwns /\ RowFollows /\ AdoptedMatches
Steady == Orderly /\ ~env.forget

MatchInv ==
    /\ TrustInv
    /\ Orderly => ContractInv
    /\ Steady => Matches

(* Serving: a session that made one call has one handler; the node is not  *)
(* its own before that handler wrote adoption.json, so that the answer 200 *)
(* is no replay and follows the reload of the NUT user just written; no    *)
(* session but the owner writes users afterwards.                          *)
Alone == ~env.hotplug /\ ~env.concurrent /\ ~env.reset
Served(s) == s \in granted /\ users = s /\ loaded = s

IdleFresh ==
    \A s \in Sessions :
      ctl[s].pc = "idle" =>
        ctl[s].try = 1 /\ \A a \in Tries : h[s][a].pc = "none"

FirstAlone ==
    \A s \in Sessions :
      ctl[s].try = 1 => \A a \in Tries \ {1} : h[s][a].pc = "none"

FirstUnowned ==
    \A s \in Sessions :
      ctl[s].try = 1 /\ h[s][1].pc \in Unwritten \cup {"none"} =>
        adoption # s

FirstReloads ==
    \A s \in Sessions :
      ctl[s].try = 1 /\ h[s][1].pc = "reload" => users = s

FirstAnswered ==
    \A s \in Sessions :
      /\ ctl[s].try = 1
      /\ \/ h[s][1].pc = "ok"
         \/ ctl[s].pc \in {"verify", "saveTrust", "setAdopted"}
      => Served(s)

RowServed ==
    reg.token \in Sessions /\ ctl[reg.token].try = 1 => Served(reg.token)

Serving ==
    /\ runtime = RuntimeIdle
    /\ IdleFresh
    /\ FirstAlone
    /\ FirstUnowned
    /\ FirstReloads
    /\ FirstAnswered
    /\ RowServed

ServeInv == TrustInv /\ OwnerInv /\ (Alone => Serving)

-----------------------------------------------------------------------------
(* Type correctness.                                                       *)

LEMMA TriesFacts == 1 \in Tries /\ \A a \in Tries : MoreTries(a) => a + 1 \in Tries
  BY ConstantsAssumption DEF ConstantsAssumption, Tries, MoreTries

LEMMA InitTypeOK == Init => TypeOK
<1> SUFFICES ASSUME Init PROVE TypeOK
  OBVIOUS
<1>1. ctl \in [Sessions -> CtlType]
  <2>1. [pc |-> "idle", try |-> 1, fp |-> NoCert] \in CtlType
    BY TriesFacts DEF CtlType, Certs
  <2>2. QED
    BY <2>1 DEF Init
<1>2. h \in HandlersType
  <2>1. Unborn \in HandlerType
    BY DEF Unborn, HandlerType, Certs
  <2>2. QED
    BY <2>1 DEF Init, HandlersType
<1>3. reg \in RegType
  BY DEF Init, NoRow, RegType, Owners, Certs
<1>4. env \in EnvType
  BY ConstantsAssumption DEF Init, ConstantsAssumption
<1>5. QED
  BY <1>1, <1>2, <1>3, <1>4
     DEF Init, TypeOK, HandlersType, Owners, Certs, RuntimeIdle

(* A handler that moves on, gets a fingerprint, loses its client or ends   *)
(* is again a handler.                                                     *)
LEMMA HandlerFacts ==
  ASSUME TypeOK, NEW s \in Sessions, NEW a \in Tries
  PROVE  /\ h[s][a] \in HandlerType
         /\ \A x \in HandlerType : [h EXCEPT ![s][a] = x] \in HandlersType
         /\ \A p \in {"gone", "sent"} \cup Running \cup Answers :
              [h[s][a] EXCEPT !.pc = p] \in HandlerType
         /\ \A p \in Answers : Ended(s, a, p) \in HandlerType
         /\ [h[s][a] EXCEPT !.cut = TRUE] \in HandlerType
         /\ \A p \in Running, f \in Certs :
              [h[s][a] EXCEPT !.pc = p, !.fp = f] \in HandlerType
<1>1. h[s][a] \in HandlerType
  BY DEF TypeOK
<1>2. \A x \in HandlerType : [h EXCEPT ![s][a] = x] \in HandlersType
  BY DEF TypeOK, HandlersType
<1>3. \A p \in {"gone", "sent"} \cup Running \cup Answers :
        [h[s][a] EXCEPT !.pc = p] \in HandlerType
  BY <1>1 DEF HandlerType, Running
<1>4. \A p \in Answers : Ended(s, a, p) \in HandlerType
  BY <1>1, <1>3 DEF Ended
<1>5. [h[s][a] EXCEPT !.cut = TRUE] \in HandlerType
  BY <1>1 DEF HandlerType
<1>6. \A p \in Running, f \in Certs :
        [h[s][a] EXCEPT !.pc = p, !.fp = f] \in HandlerType
  BY <1>1 DEF HandlerType
<1>7. QED
  BY <1>1, <1>2, <1>3, <1>4, <1>5, <1>6

LEMMA CtlFacts ==
  ASSUME TypeOK, NEW s \in Sessions
  PROVE  /\ ctl[s] \in CtlType
         /\ ctl[s].try \in Tries
         /\ \A p \in {"done", "rejected", "failed"} \cup Working :
              [ctl EXCEPT ![s].pc = p] \in [Sessions -> CtlType]
<1>1. ctl[s] \in CtlType
  BY DEF TypeOK
<1>2. \A p \in {"done", "rejected", "failed"} \cup Working :
        [ctl[s] EXCEPT !.pc = p] \in CtlType
  BY <1>1 DEF CtlType
<1>3. QED
  BY <1>1, <1>2 DEF TypeOK, CtlType

LEMMA ControllerTypeOK ==
  ASSUME TypeOK, NEW s \in Sessions,
         StartAdopt(s) \/ CallTimesOut(s) \/ AbandonAdopt(s) \/ CtlStep(s)
  PROVE  TypeOK'
<1> USE DEF ctlVars, tlsVars, nutVars
<1>1. CASE StartAdopt(s)
  <2>1. ctl' \in [Sessions -> CtlType]
    BY <1>1, CtlFacts DEF StartAdopt, Working
  <2>2. h' \in HandlersType
    BY <1>1, HandlerFacts, TriesFacts DEF StartAdopt, HandlersType
  <2>3. QED
    BY <1>1, <2>1, <2>2 DEF StartAdopt, TypeOK, HandlersType
<1>2. CASE CallTimesOut(s)
  <2> DEFINE a == ctl[s].try
             lost == IF \/ h[s][a].pc \in Answers
                        \/ (h[s][a].pc = "sent" /\ ~env.late)
                       THEN [h EXCEPT ![s][a].pc = "gone"]
                       ELSE [h EXCEPT ![s][a].cut = TRUE]
  <2>1. a \in Tries /\ ctl[s] \in CtlType
    BY CtlFacts
  <2>2. lost \in HandlersType
    BY <2>1, HandlerFacts
  <2>3. env' \in EnvType
    <3>1. env.losses \in Nat /\ env.losses > 0
      BY <1>2 DEF CallTimesOut, TypeOK, EnvType
    <3>2. env.losses - 1 \in Nat
      BY <3>1
    <3>3. env' = [env EXCEPT !.losses = env.losses - 1]
      BY <1>2 DEF CallTimesOut
    <3>4. QED
      BY <3>2, <3>3 DEF TypeOK, EnvType
  <2>4. CASE MoreTries(a)
    <3>1. /\ ctl' = [ctl EXCEPT ![s].try = a + 1]
          /\ h' = [lost EXCEPT ![s][a + 1].pc = "sent"]
      BY <1>2, <2>4 DEF CallTimesOut
    <3>2. a + 1 \in Tries
      BY <2>1, <2>4, TriesFacts
    <3>3. ctl' \in [Sessions -> CtlType]
      <4>1. [ctl[s] EXCEPT !.try = a + 1] \in CtlType
        BY <2>1, <3>2 DEF CtlType
      <4>2. QED
        BY <3>1, <4>1 DEF TypeOK
    <3>4. h' \in HandlersType
      <4> HIDE DEF lost
      <4>1. lost[s][a + 1] \in HandlerType
        BY <2>2, <3>2 DEF HandlersType
      <4>2. [lost[s][a + 1] EXCEPT !.pc = "sent"] \in HandlerType
        BY <4>1 DEF HandlerType, Running
      <4>3. QED
        BY <2>2, <3>1, <3>2, <4>2 DEF HandlersType
    <3>5. QED
      BY <1>2, <2>3, <3>3, <3>4 DEF CallTimesOut, TypeOK, HandlersType
  <2>5. CASE ~MoreTries(a)
    <3>1. /\ ctl' = [ctl EXCEPT ![s].pc = "failed"]
          /\ h' = lost
      BY <1>2, <2>5 DEF CallTimesOut
    <3>2. ctl' \in [Sessions -> CtlType]
      BY <3>1, CtlFacts
    <3>3. QED
      BY <1>2, <2>2, <2>3, <3>1, <3>2 DEF CallTimesOut, TypeOK, HandlersType
  <2>6. QED
    BY <2>4, <2>5
<1>3. CASE AbandonAdopt(s)
  <2>1. ctl' \in [Sessions -> CtlType]
    BY <1>3, CtlFacts DEF AbandonAdopt
  <2>2. h' \in HandlersType
    <3>1. \A a \in Tries :
            (IF h[s][a].pc \in Answers THEN [h[s][a] EXCEPT !.pc = "gone"]
             ELSE IF h[s][a].pc \in Running
               THEN [h[s][a] EXCEPT !.cut = TRUE] ELSE h[s][a]) \in HandlerType
      BY HandlerFacts
    <3>2. QED
      BY <1>3, <3>1 DEF AbandonAdopt, TypeOK, HandlersType
  <2>3. QED
    BY <1>3, <2>1, <2>2 DEF AbandonAdopt, TypeOK, HandlersType
<1>4. CASE ReceiveAnswer(s)
  <2> DEFINE a == ctl[s].try
             p == AfterAnswer[h[s][a].pc]
  <2>1. a \in Tries /\ ctl[s] \in CtlType /\ h[s][a] \in HandlerType
    BY CtlFacts, HandlerFacts
  <2>2. p \in {"verify", "rejected", "failed"}
    BY <1>4 DEF ReceiveAnswer, Answers, AfterAnswer
  <2>3. ctl' \in [Sessions -> CtlType]
    <3>1. ctl' = [ctl EXCEPT ![s] = [ctl[s] EXCEPT !.pc = p,
                                                   !.fp = h[s][a].fp]]
      BY <1>4 DEF ReceiveAnswer
    <3> HIDE DEF p
    <3>2. [ctl[s] EXCEPT !.pc = p, !.fp = h[s][a].fp] \in CtlType
      BY <2>1, <2>2 DEF CtlType, HandlerType, Working
    <3>3. QED
      BY <3>1, <3>2 DEF TypeOK
  <2>4. h' \in HandlersType
    BY <1>4, <2>1, HandlerFacts DEF ReceiveAnswer
  <2>5. QED
    BY <1>4, <2>3, <2>4 DEF ReceiveAnswer, TypeOK, HandlersType
<1>5. CASE ConnectionLost(s)
  BY <1>5, CtlFacts DEF ConnectionLost, TypeOK
<1>6. CASE VerifyPinnedNodeHealth(s)
  BY <1>6, CtlFacts DEF VerifyPinnedNodeHealth, TypeOK, Working
<1>7. CASE SaveNodeTrust(s)
  <2>1. ctl' \in [Sessions -> CtlType]
    BY <1>7, CtlFacts DEF SaveNodeTrust, Working
  <2>2. [reg EXCEPT !.token = s, !.fp = ctl[s].fp] \in RegType
    BY CtlFacts DEF TypeOK, RegType, CtlType, Owners
  <2>3. QED
    BY <1>7, <2>1, <2>2 DEF SaveNodeTrust, TypeOK
<1>8. CASE SetNodeAdopted(s)
  <2>1. ctl' \in [Sessions -> CtlType]
    BY <1>8, CtlFacts DEF SetNodeAdopted
  <2>2. [reg EXCEPT !.adopted = TRUE] \in RegType
    BY DEF TypeOK, RegType
  <2>3. QED
    BY <1>8, <2>1, <2>2 DEF SetNodeAdopted, TypeOK
<1>9. QED
  BY <1>1, <1>2, <1>3, <1>4, <1>5, <1>6, <1>7, <1>8 DEF CtlStep

LEMMA HandlerTypeOK ==
  ASSUME TypeOK, NEW s \in Sessions, NEW a \in Tries, HandlerStep(s, a)
  PROVE  TypeOK'
<1> USE DEF ctlVars, tlsVars, nutVars
<1>1. CASE RequestDropped(s, a)
  BY <1>1, HandlerFacts DEF RequestDropped, TypeOK, HandlersType
<1>2. CASE StatAdoption(s, a)
  <2>1. LookupAdoption(s, a) \in HandlerType
    <3>1. adoptionFp \in Certs /\ Ended(s, a, "ok") \in HandlerType
      BY HandlerFacts DEF TypeOK, Answers
    <3>2. [Ended(s, a, "ok") EXCEPT !.fp = adoptionFp] \in HandlerType
      BY <3>1 DEF HandlerType
    <3>3. QED
      BY <3>2, HandlerFacts DEF LookupAdoption, Answers, Running
  <2>2. h' \in HandlersType
    BY <1>2, <2>1, HandlerFacts DEF StatAdoption
  <2>3. granted' \subseteq Sessions
    BY <1>2 DEF StatAdoption, TypeOK
  <2>4. QED
    BY <1>2, <2>2, <2>3 DEF StatAdoption, TypeOK, HandlersType
<1>3. CASE FindCertificate(s, a)
  <2>1. cert \in Certs
    BY DEF TypeOK
  <2>2. h' \in HandlersType
    BY <1>3, <2>1, HandlerFacts DEF FindCertificate, Running
  <2>3. QED
    BY <1>3, <2>2 DEF FindCertificate, TypeOK, HandlersType
<1>4. CASE WriteCertificate(s, a)
  <2>1. h' \in HandlersType
    BY <1>4, HandlerFacts DEF WriteCertificate, Running
  <2>2. QED
    BY <1>4, <2>1 DEF WriteCertificate, TypeOK, HandlersType, Certs
<1>5. CASE WriteKey(s, a)
  <2>1. cert \in Certs
    BY DEF TypeOK
  <2>2. h' \in HandlersType
    BY <1>5, <2>1, HandlerFacts DEF WriteKey, Running, Answers
  <2>3. QED
    BY <1>5, <2>2 DEF WriteKey, TypeOK, HandlersType, Certs
<1>6. CASE TruncateAdoption(s, a)
  <2>1. h' \in HandlersType
    BY <1>6, HandlerFacts DEF TruncateAdoption, Running
  <2>2. QED
    BY <1>6, <2>1 DEF TruncateAdoption, TypeOK, HandlersType, Certs
<1>7. CASE WriteAdoption(s, a)
  <2>1. h' \in HandlersType
    BY <1>7, HandlerFacts DEF WriteAdoption, Running
  <2>2. h[s][a].fp \in Certs
    BY HandlerFacts DEF HandlerType
  <2>3. QED
    BY <1>7, <2>1, <2>2 DEF WriteAdoption, TypeOK, HandlersType, Owners
<1>8. CASE WriteUsers(s, a)
  <2>1. h' \in HandlersType
    BY <1>8, HandlerFacts DEF WriteUsers, Running
  <2>2. QED
    BY <1>8, <2>1 DEF WriteUsers, TypeOK, HandlersType, Owners
<1>9. CASE ReloadNUT(s, a)
  <2>1. h' \in HandlersType
    BY <1>9, HandlerFacts DEF ReloadNUT, Answers
  <2>2. QED
    BY <1>9, <2>1 DEF ReloadNUT, TypeOK, HandlersType
<1>10. CASE ReloadFails(s, a)
  <2>1. h' \in HandlersType
    BY <1>10, HandlerFacts DEF ReloadFails, Answers
  <2>2. QED
    BY <1>10, <2>1 DEF ReloadFails, TypeOK, HandlersType
<1>11. QED
  BY <1>1, <1>2, <1>3, <1>4, <1>5, <1>6, <1>7, <1>8, <1>9, <1>10
     DEF HandlerStep

LEMMA NodeTypeOK ==
  ASSUME TypeOK,
         \/ UpsertDiscoveredNode \/ HandleForgetNode
         \/ LoadRuntimeNUTUser \/ RuntimeApply
         \/ NodeRestart \/ ResetNodeState
  PROVE  TypeOK'
<1> USE DEF ctlVars, tlsVars, nutVars
<1>1. CASE UpsertDiscoveredNode
  <2>1. reg' \in RegType
    BY <1>1 DEF UpsertDiscoveredNode, NoRow, RegType, Owners, Certs
  <2>2. QED
    BY <1>1, <2>1 DEF UpsertDiscoveredNode, TypeOK
<1>2. CASE HandleForgetNode
  <2>1. reg' \in RegType
    BY <1>2 DEF HandleForgetNode, NoRow, RegType, Owners, Certs
  <2>2. QED
    BY <1>2, <2>1 DEF HandleForgetNode, TypeOK
<1>3. CASE LoadRuntimeNUTUser
  BY <1>3 DEF LoadRuntimeNUTUser, TypeOK
<1>4. CASE RuntimeApply
  BY <1>4 DEF RuntimeApply, TypeOK
<1>5. CASE NodeRestart
  <2>1. \A s \in Sessions, a \in Tries :
          (IF h[s][a].pc \in Running \cup Answers
             THEN [h[s][a] EXCEPT !.pc = "gone"] ELSE h[s][a]) \in HandlerType
    BY HandlerFacts
  <2>2. h' \in HandlersType
    BY <1>5, <2>1 DEF NodeRestart, HandlersType
  <2>3. QED
    BY <1>5, <2>2 DEF NodeRestart, TypeOK, HandlersType
<1>6. CASE ResetNodeState
  BY <1>6 DEF ResetNodeState, TypeOK, Owners, Certs
<1>7. QED
  BY <1>1, <1>2, <1>3, <1>4, <1>5, <1>6

LEMMA NextTypeOK == TypeOK /\ [Next]_vars => TypeOK'
<1> SUFFICES ASSUME TypeOK, [Next]_vars PROVE TypeOK'
  OBVIOUS
<1>1. CASE UNCHANGED vars
  BY <1>1 DEF vars, TypeOK
<1>2. CASE Next
  BY <1>2, NodeTypeOK, ControllerTypeOK, HandlerTypeOK DEF Next
<1>3. QED
  BY <1>1, <1>2

(* The files, the registry row, the handlers and the controller's sessions *)
(* keep to the values their code types allow, in every environment.        *)
THEOREM TypeCorrect == Spec => []TypeOK
  BY InitTypeOK, NextTypeOK, PTL DEF Spec
-----------------------------------------------------------------------------
(* Trust.                                                                  *)

(* What an environment allows does not change, only its losses do.         *)
LEMMA EnvKept ==
  ASSUME TypeOK, [Next]_vars
  PROVE  /\ env'.late = env.late
         /\ env'.concurrent = env.concurrent
         /\ env'.reset = env.reset
         /\ env'.forget = env.forget
         /\ env'.hotplug = env.hotplug
<1>1. env \in EnvType
  BY DEF TypeOK
<1>2. CASE \E s \in Sessions : CallTimesOut(s)
  <2>1. env' = [env EXCEPT !.losses = env.losses - 1]
    BY <1>2 DEF CallTimesOut
  <2>2. QED
    BY <1>1, <2>1 DEF EnvType
<1>3. CASE UNCHANGED env
  BY <1>3
<1>4. CASE \/ UpsertDiscoveredNode \/ HandleForgetNode
           \/ LoadRuntimeNUTUser \/ RuntimeApply
           \/ NodeRestart \/ ResetNodeState \/ UNCHANGED vars
  BY <1>4 DEF vars, UpsertDiscoveredNode, HandleForgetNode,
         LoadRuntimeNUTUser, RuntimeApply, NodeRestart, ResetNodeState
<1>5. ASSUME NEW s \in Sessions, StartAdopt(s) \/ AbandonAdopt(s) \/ CtlStep(s)
      PROVE  UNCHANGED env
  BY <1>5 DEF StartAdopt, AbandonAdopt, CtlStep, ReceiveAnswer,
         ConnectionLost, VerifyPinnedNodeHealth, SaveNodeTrust,
         SetNodeAdopted
<1>6. ASSUME NEW s \in Sessions, NEW a \in Tries, HandlerStep(s, a)
      PROVE  UNCHANGED env
  BY <1>6 DEF HandlerStep, RequestDropped, StatAdoption, FindCertificate,
         WriteCertificate, WriteKey, TruncateAdoption, WriteAdoption,
         WriteUsers, ReloadNUT, ReloadFails
<1>7. QED
  BY <1>2, <1>3, <1>4, <1>5, <1>6 DEF Next

LEMMA InitTrustInv == Init => TrustInv
<1> SUFFICES ASSUME Init PROVE TrustInv
  OBVIOUS
<1>1. FileHasFp /\ RowIsTrusted
  BY ConstantsAssumption
     DEF Init, ConstantsAssumption, FileHasFp, RowIsTrusted, NoRow
<1>2. HandlersHaveFp /\ SessionsHaveFp
  BY DEF Init, HandlersHaveFp, SessionsHaveFp, Unborn
<1>3. QED
  BY <1>1, <1>2, InitTypeOK DEF TrustInv

LEMMA ControllerTrust ==
  ASSUME TrustInv, TypeOK', env'.forget = env.forget, NEW s \in Sessions,
         StartAdopt(s) \/ CallTimesOut(s) \/ AbandonAdopt(s) \/ CtlStep(s)
  PROVE  TrustInv'
<1> USE DEF ctlVars, tlsVars, nutVars
<1>0. /\ ctl \in [Sessions -> CtlType] /\ h \in HandlersType
      /\ ctl[s].try \in Tries
  BY CtlFacts DEF TrustInv, TypeOK, HandlersType
<1>1. CASE StartAdopt(s)
  <2>1. HandlersHaveFp'
    BY <1>0, <1>1, TriesFacts
       DEF StartAdopt, TrustInv, HandlersHaveFp, HandlersType, HandlerType
  <2>2. SessionsHaveFp' /\ RowIsTrusted' /\ FileHasFp'
    BY <1>0, <1>1 DEF StartAdopt, TrustInv, SessionsHaveFp, RowIsTrusted,
                      RowHasTrust, FileHasFp, CtlType
  <2>3. QED
    BY <2>1, <2>2 DEF TrustInv
<1>2. CASE CallTimesOut(s)
  <2> DEFINE a == ctl[s].try
             lost == IF \/ h[s][a].pc \in Answers
                        \/ (h[s][a].pc = "sent" /\ ~env.late)
                       THEN [h EXCEPT ![s][a].pc = "gone"]
                       ELSE [h EXCEPT ![s][a].cut = TRUE]
  <2>1. \A t \in Sessions, b \in Tries :
          \/ lost[t][b].pc = "gone"
          \/ lost[t][b].pc = h[t][b].pc /\ lost[t][b].fp = h[t][b].fp
    BY <1>0 DEF HandlersType, HandlerType
  <2>2. lost \in HandlersType
    BY <1>0, HandlerFacts DEF TrustInv
  <2>3. \/ /\ h' = lost
           /\ ctl' = [ctl EXCEPT ![s].pc = "failed"]
        \/ /\ a + 1 \in Tries
           /\ h' = [lost EXCEPT ![s][a + 1].pc = "sent"]
           /\ ctl' = [ctl EXCEPT ![s].try = a + 1]
    BY <1>0, <1>2, TriesFacts DEF CallTimesOut
  <2>4. HandlersHaveFp'
    <3> HIDE DEF a, lost
    <3>1. \A t \in Sessions, b \in Tries :
            \/ h'[t][b].pc \in {"gone", "sent"}
            \/ h'[t][b].pc = h[t][b].pc /\ h'[t][b].fp = h[t][b].fp
      <4>1. CASE h' = lost
        BY <2>1, <4>1
      <4>2. CASE a + 1 \in Tries /\ h' = [lost EXCEPT ![s][a + 1].pc = "sent"]
        <5>1. h'[s][a + 1].pc = "sent"
          BY <2>2, <4>2 DEF HandlersType, HandlerType
        <5>2. \A t \in Sessions, b \in Tries :
                ~(t = s /\ b = a + 1) => h'[t][b] = lost[t][b]
          BY <2>2, <4>2 DEF HandlersType
        <5>3. QED
          BY <2>1, <5>1, <5>2
      <4>3. QED
        BY <2>3, <4>1, <4>2
    <3>2. QED
      BY <3>1 DEF TrustInv, HandlersHaveFp
  <2>5. SessionsHaveFp' /\ RowIsTrusted' /\ FileHasFp'
    <3> HIDE DEF a, lost
    <3>1. \A t \in Sessions :
            \/ ctl'[t].pc = "failed"
            \/ ctl'[t].pc = ctl[t].pc /\ ctl'[t].fp = ctl[t].fp
      BY <1>0, <2>3 DEF CtlType
    <3>2. UNCHANGED <<reg, adoption, adoptionFp>>
      BY <1>2 DEF CallTimesOut
    <3>3. QED
      BY <3>1, <3>2 DEF TrustInv, SessionsHaveFp, RowIsTrusted, RowHasTrust,
                        FileHasFp
  <2>6. QED
    BY <2>4, <2>5 DEF TrustInv
<1>3. CASE AbandonAdopt(s)
  <2>1. HandlersHaveFp'
    BY <1>0, <1>3
       DEF AbandonAdopt, TrustInv, HandlersHaveFp, HandlersType, HandlerType
  <2>2. SessionsHaveFp' /\ RowIsTrusted' /\ FileHasFp'
    BY <1>0, <1>3 DEF AbandonAdopt, TrustInv, SessionsHaveFp, RowIsTrusted,
                      RowHasTrust, FileHasFp, CtlType
  <2>3. QED
    BY <2>1, <2>2 DEF TrustInv
<1>4. CASE ReceiveAnswer(s)
  <2> DEFINE a == ctl[s].try
  <2>1. HandlersHaveFp'
    BY <1>0, <1>4
       DEF ReceiveAnswer, TrustInv, HandlersHaveFp, HandlersType, HandlerType
  <2>2. SessionsHaveFp'
    <3>1. h[s][a].pc = "ok" => h[s][a].fp # NoCert
      BY <1>0 DEF TrustInv, HandlersHaveFp
    <3>2. AfterAnswer[h[s][a].pc] = "verify" => h[s][a].pc = "ok"
      BY <1>4 DEF ReceiveAnswer, AfterAnswer, Answers
    <3>3. AfterAnswer[h[s][a].pc] \in {"verify", "rejected", "failed"}
      BY <1>4 DEF ReceiveAnswer, AfterAnswer, Answers
    <3>4. /\ ctl'[s].pc = AfterAnswer[h[s][a].pc]
          /\ ctl'[s].fp = h[s][a].fp
          /\ \A t \in Sessions \ {s} : ctl'[t] = ctl[t]
      BY <1>0, <1>4 DEF ReceiveAnswer, CtlType
    <3>5. QED
      BY <3>1, <3>2, <3>3, <3>4 DEF TrustInv, SessionsHaveFp
  <2>3. RowIsTrusted' /\ FileHasFp'
    <3>1. AfterAnswer[h[s][a].pc] # "setAdopted"
      BY <1>4 DEF ReceiveAnswer, AfterAnswer, Answers
    <3>2. /\ ctl'[s].pc # "setAdopted"
          /\ \A t \in Sessions \ {s} : ctl'[t] = ctl[t]
      BY <1>0, <1>4, <3>1 DEF ReceiveAnswer, CtlType
    <3>3. QED
      BY <1>4, <3>2
         DEF ReceiveAnswer, TrustInv, RowIsTrusted, RowHasTrust, FileHasFp
  <2>4. QED
    BY <2>1, <2>2, <2>3 DEF TrustInv
<1>5. CASE ConnectionLost(s)
  BY <1>0, <1>5 DEF ConnectionLost, TrustInv, HandlersHaveFp, SessionsHaveFp,
                    RowIsTrusted, RowHasTrust, FileHasFp, CtlType
<1>6. CASE VerifyPinnedNodeHealth(s)
  BY <1>0, <1>6 DEF VerifyPinnedNodeHealth, TrustInv, HandlersHaveFp,
                    SessionsHaveFp, RowIsTrusted, RowHasTrust, FileHasFp,
                    CtlType
<1>7. CASE SaveNodeTrust(s)
  <2>1. SessionsHaveFp' /\ HandlersHaveFp' /\ FileHasFp'
    BY <1>0, <1>7 DEF SaveNodeTrust, TrustInv, HandlersHaveFp,
                      SessionsHaveFp, FileHasFp, CtlType
  <2>2. ctl[s].fp # NoCert /\ s # Nobody
    BY <1>7, ConstantsAssumption
       DEF SaveNodeTrust, TrustInv, SessionsHaveFp, ConstantsAssumption
  <2>3. RowIsTrusted'
    <3>1. CASE reg.exists
      <4>1. RowHasTrust'
        BY <1>7, <2>2, <3>1
           DEF SaveNodeTrust, RowHasTrust, TrustInv, TypeOK, RegType
      <4>2. QED
        BY <4>1 DEF RowIsTrusted
    <3>2. CASE ~reg.exists
      BY <1>0, <1>7, <3>2 DEF SaveNodeTrust, TrustInv, RowIsTrusted,
                              RowHasTrust, CtlType
    <3>3. QED
      BY <3>1, <3>2
  <2>4. QED
    BY <2>1, <2>3 DEF TrustInv
<1>8. CASE SetNodeAdopted(s)
  <2>1. SessionsHaveFp' /\ HandlersHaveFp' /\ FileHasFp'
    BY <1>0, <1>8 DEF SetNodeAdopted, TrustInv, HandlersHaveFp,
                      SessionsHaveFp, FileHasFp, CtlType
  <2>2. RowIsTrusted'
    <3>1. ~env.forget => RowHasTrust
      BY <1>8 DEF SetNodeAdopted, TrustInv, RowIsTrusted
    <3>2. ~env.forget => RowHasTrust'
      BY <1>8, <3>1 DEF SetNodeAdopted, TrustInv, TypeOK, RegType, RowHasTrust
    <3>3. QED
      BY <3>2 DEF RowIsTrusted
  <2>3. QED
    BY <2>1, <2>2 DEF TrustInv
<1>9. QED
  BY <1>1, <1>2, <1>3, <1>4, <1>5, <1>6, <1>7, <1>8 DEF CtlStep

LEMMA HandlerTrust ==
  ASSUME TrustInv, TypeOK', env'.forget = env.forget,
         NEW s \in Sessions, NEW a \in Tries, HandlerStep(s, a)
  PROVE  TrustInv'
<1> USE DEF ctlVars, tlsVars, nutVars
<1>0. /\ h \in HandlersType /\ h[s][a] \in HandlerType
      /\ UNCHANGED <<ctl, reg>>
  BY HandlerFacts DEF TrustInv, TypeOK, HandlersType, HandlerStep,
     RequestDropped, StatAdoption, FindCertificate, WriteCertificate,
     WriteKey, TruncateAdoption, WriteAdoption, WriteUsers, ReloadNUT,
     ReloadFails
<1>1. SessionsHaveFp' /\ RowIsTrusted'
  BY <1>0 DEF TrustInv, SessionsHaveFp, RowIsTrusted, RowHasTrust
<1>2. FileHasFp'
  <2>1. CASE TruncateAdoption(s, a)
    BY <2>1, ConstantsAssumption
       DEF TruncateAdoption, FileHasFp, ConstantsAssumption
  <2>2. CASE WriteAdoption(s, a)
    BY <2>2 DEF WriteAdoption, TrustInv, FileHasFp, HandlersHaveFp
  <2>3. CASE UNCHANGED <<adoption, adoptionFp>>
    BY <2>3 DEF TrustInv, FileHasFp
  <2>4. QED
    BY <2>1, <2>2, <2>3 DEF HandlerStep, RequestDropped, StatAdoption,
       FindCertificate, WriteCertificate, WriteKey, WriteUsers, ReloadNUT,
       ReloadFails
<1>3. HandlersHaveFp'
  <2> DEFINE Fits(x) ==
        x.pc \in {"truncate", "write", "users", "reload", "ok"} =>
          x.fp # NoCert
  <2>1. SUFFICES ASSUME NEW x \in HandlerType, h' = [h EXCEPT ![s][a] = x],
                        Fits(x)
                 PROVE  HandlersHaveFp'
    <3>1. Fits(h[s][a])
      BY DEF TrustInv, HandlersHaveFp
    <3>2. \A p \in Answers : (p = "ok" => h[s][a].fp # NoCert)
                              => Fits(Ended(s, a, p))
      BY <1>0 DEF Ended, HandlerType, Answers
    <3>3. CASE RequestDropped(s, a)
      <4> DEFINE x == [h[s][a] EXCEPT !.pc = "gone"]
      <4>1. x \in HandlerType /\ Fits(x) /\ h' = [h EXCEPT ![s][a] = x]
        BY <1>0, <3>3 DEF RequestDropped, HandlerType
      <4>2. QED
        BY <2>1, <4>1
    <3>4. CASE StatAdoption(s, a)
      <4> DEFINE x == LookupAdoption(s, a)
      <4>1. x \in HandlerType
        <5>1. adoptionFp \in Certs /\ Ended(s, a, "ok") \in HandlerType
          BY HandlerFacts DEF TrustInv, TypeOK, Answers
        <5>2. [Ended(s, a, "ok") EXCEPT !.fp = adoptionFp] \in HandlerType
          BY <5>1 DEF HandlerType
        <5>3. QED
          BY <5>2, HandlerFacts
             DEF LookupAdoption, Answers, Running, TrustInv
      <4>2. Fits(x)
        <5>1. adoption = s =>
                Fits([Ended(s, a, "ok") EXCEPT !.fp = adoptionFp])
          BY <1>0 DEF TrustInv, FileHasFp, Ended, HandlerType
        <5>2. Fits([h[s][a] EXCEPT !.pc = "cert"])
          BY <1>0 DEF HandlerType
        <5>3. Fits(Ended(s, a, "error")) /\ Fits(Ended(s, a, "conflict"))
          BY <3>2 DEF Answers
        <5> HIDE DEF Fits
        <5>4. QED
          BY <5>1, <5>2, <5>3 DEF LookupAdoption
      <4>3. h' = [h EXCEPT ![s][a] = x]
        BY <3>4 DEF StatAdoption
      <4>4. QED
        BY <2>1, <4>1, <4>2, <4>3
    <3>5. CASE FindCertificate(s, a)
      <4> DEFINE x == IF NoCert \notin {cert, key}
                        THEN [h[s][a] EXCEPT !.pc = "truncate", !.fp = cert]
                        ELSE [h[s][a] EXCEPT !.pc = "certfile"]
      <4>1. x \in HandlerType
        BY HandlerFacts DEF TrustInv, TypeOK, Running
      <4>2. Fits(x)
        BY <1>0 DEF HandlerType
      <4>3. h' = [h EXCEPT ![s][a] = x]
        BY <3>5 DEF FindCertificate
      <4>4. QED
        BY <2>1, <4>1, <4>2, <4>3
    <3>6. CASE WriteCertificate(s, a)
      <4> DEFINE x == [h[s][a] EXCEPT !.pc = "keyfile"]
      <4>1. x \in HandlerType /\ Fits(x) /\ h' = [h EXCEPT ![s][a] = x]
        BY <1>0, <3>6 DEF WriteCertificate, HandlerType, Running
      <4>2. QED
        BY <2>1, <4>1
    <3>7. CASE WriteKey(s, a)
      <4> DEFINE x == IF cert = NoCert
                        THEN Ended(s, a, "error")
                        ELSE [h[s][a] EXCEPT !.pc = "truncate", !.fp = cert]
      <4>1. x \in HandlerType
        BY HandlerFacts DEF TrustInv, TypeOK, Running, Answers
      <4>2. Fits(x)
        BY <1>0, <3>2 DEF HandlerType, Answers
      <4>3. h' = [h EXCEPT ![s][a] = x]
        BY <3>7 DEF WriteKey
      <4>4. QED
        BY <2>1, <4>1, <4>2, <4>3
    <3>8. CASE TruncateAdoption(s, a) \/ WriteAdoption(s, a) \/ WriteUsers(s, a)
      <4>1. PICK p \in {"write", "users", "reload"} :
              h' = [h EXCEPT ![s][a].pc = p]
        BY <3>8 DEF TruncateAdoption, WriteAdoption, WriteUsers
      <4>2. h[s][a].fp # NoCert
        BY <3>1, <3>8 DEF TruncateAdoption, WriteAdoption, WriteUsers
      <4> DEFINE x == [h[s][a] EXCEPT !.pc = p]
      <4>3. x \in HandlerType /\ Fits(x) /\ h' = [h EXCEPT ![s][a] = x]
        BY <1>0, <4>1, <4>2 DEF HandlerType, Running
      <4>4. QED
        BY <2>1, <4>3
    <3>9. CASE ReloadNUT(s, a) \/ ReloadFails(s, a)
      <4>1. PICK p \in {"ok", "error"} :
              h' = [h EXCEPT ![s][a] = Ended(s, a, p)]
        BY <3>9 DEF ReloadNUT, ReloadFails
      <4>2. h[s][a].fp # NoCert
        BY <3>1, <3>9 DEF ReloadNUT, ReloadFails
      <4>3. Ended(s, a, p) \in HandlerType /\ Fits(Ended(s, a, p))
        BY <3>2, <4>2, HandlerFacts DEF TrustInv, Answers
      <4>4. QED
        BY <2>1, <4>1, <4>3
    <3>10. QED
      BY <3>3, <3>4, <3>5, <3>6, <3>7, <3>8, <3>9 DEF HandlerStep
  <2>2. QED
    BY <1>0, <2>1 DEF TrustInv, HandlersHaveFp, HandlersType
<1>4. QED
  BY <1>1, <1>2, <1>3 DEF TrustInv

LEMMA NodeTrust ==
  ASSUME TrustInv, TypeOK', env'.forget = env.forget,
         \/ UpsertDiscoveredNode \/ HandleForgetNode
         \/ LoadRuntimeNUTUser \/ RuntimeApply
         \/ NodeRestart \/ ResetNodeState
  PROVE  TrustInv'
<1> USE DEF ctlVars, tlsVars, nutVars
<1>1. CASE UpsertDiscoveredNode
  BY <1>1 DEF UpsertDiscoveredNode, TrustInv, FileHasFp, HandlersHaveFp,
              SessionsHaveFp, RowIsTrusted, RowHasTrust, NoRow
<1>2. CASE HandleForgetNode
  BY <1>2 DEF HandleForgetNode, TrustInv, FileHasFp, HandlersHaveFp,
              SessionsHaveFp, RowIsTrusted
<1>3. CASE LoadRuntimeNUTUser \/ RuntimeApply
  BY <1>3 DEF LoadRuntimeNUTUser, RuntimeApply, TrustInv, FileHasFp,
              HandlersHaveFp, SessionsHaveFp, RowIsTrusted, RowHasTrust
<1>4. CASE NodeRestart
  <2>1. HandlersHaveFp'
    BY <1>4 DEF NodeRestart, TrustInv, TypeOK, HandlersHaveFp, HandlerType
  <2>2. QED
    BY <1>4, <2>1 DEF NodeRestart, TrustInv, FileHasFp, SessionsHaveFp,
                      RowIsTrusted, RowHasTrust
<1>5. CASE ResetNodeState
  BY <1>5, ConstantsAssumption
     DEF ResetNodeState, TrustInv, FileHasFp, HandlersHaveFp,
         SessionsHaveFp, RowIsTrusted, RowHasTrust, ConstantsAssumption
<1>6. QED
  BY <1>1, <1>2, <1>3, <1>4, <1>5

LEMMA NextTrustInv == TrustInv /\ [Next]_vars => TrustInv'
<1> SUFFICES ASSUME TrustInv, [Next]_vars PROVE TrustInv'
  OBVIOUS
<1>1. TypeOK' /\ env'.forget = env.forget
  BY NextTypeOK, EnvKept DEF TrustInv
<1>2. CASE UNCHANGED vars
  BY <1>1, <1>2 DEF vars, TrustInv, FileHasFp, HandlersHaveFp,
                    SessionsHaveFp, RowIsTrusted, RowHasTrust
<1>3. CASE Next
  BY <1>1, <1>3, NodeTrust, ControllerTrust, HandlerTrust DEF Next
<1>4. QED
  BY <1>2, <1>3

(* A row marked adopted holds a token and a fingerprint, whatever times    *)
(* out, overlaps, restarts or is reset, as long as nobody forgets the node *)
(* between SaveNodeTrust and SetNodeAdopted.                               *)
THEOREM AdoptedNodesHaveTrust == Spec => []AdoptedHasTrust
<1>1. TrustInv => AdoptedHasTrust
  BY DEF TrustInv, RowIsTrusted, RowHasTrust, AdoptedHasTrust
<1>2. QED
  BY <1>1, InitTrustInv, NextTrustInv, PTL DEF Spec
-----------------------------------------------------------------------------
(* Ownership.                                                              *)

LEMMA InitOwnerInv == Init => OwnerInv
<1> SUFFICES ASSUME Init PROVE OwnerInv
  OBVIOUS
<1>1. \A s \in Sessions : ~Busy(s)
  BY DEF Init, Busy, Active, Working, Running, Unborn
<1>2. OneSessionBusy
  BY <1>1 DEF OneSessionBusy
<1>3. OwnerWrites /\ WrittenStays /\ GrantedOwns
  BY ConstantsAssumption DEF Init, ConstantsAssumption, OwnerWrites,
     WrittenStays, GrantedOwns, Unborn
<1>4. QED
  BY <1>2, <1>3, InitTypeOK DEF OwnerInv, Owned

(* A step that leaves the file and the answers alone and lets no handler   *)
(* get further keeps the ownership facts.                                  *)
LEMMA NoProgress ==
  ASSUME Owned, UNCHANGED <<adoption, granted>>,
         \A t \in Sessions, b \in Tries :
           h'[t][b].pc = h[t][b].pc \/ h'[t][b].pc \in {"gone", "sent"}
  PROVE  OwnerWrites' /\ WrittenStays' /\ GrantedOwns'
<1>1. \A t \in Sessions, b \in Tries :
        h'[t][b].pc \in Entered => h[t][b].pc \in Entered
  BY DEF Entered, Running
<1>2. OwnerWrites'
  BY <1>1 DEF Owned, OwnerWrites
<1>3. WrittenStays'
  BY DEF Owned, WrittenStays
<1>4. GrantedOwns'
  BY <1>1 DEF Owned, GrantedOwns
<1>5. QED
  BY <1>2, <1>3, <1>4

(* What the controller's steps do to a handler: nothing, start it, or end  *)
(* it.                                                                     *)
LEMMA ControllerHandlers ==
  ASSUME TypeOK, NEW s \in Sessions,
         StartAdopt(s) \/ CallTimesOut(s) \/ AbandonAdopt(s) \/ CtlStep(s)
  PROVE  /\ UNCHANGED <<adoption, granted>>
         /\ \A t \in Sessions, b \in Tries :
              \/ h'[t][b].pc = h[t][b].pc
              \/ h'[t][b].pc = "gone"
              \/ h'[t][b].pc = "sent" /\ t = s
         /\ \A t \in Sessions \ {s} : ctl'[t] = ctl[t]
<1> USE DEF ctlVars, tlsVars, nutVars
<1>0. /\ ctl \in [Sessions -> CtlType] /\ h \in HandlersType
      /\ ctl[s].try \in Tries
  BY CtlFacts DEF TypeOK, HandlersType
<1>1. CASE StartAdopt(s)
  BY <1>0, <1>1, TriesFacts DEF StartAdopt, HandlersType, HandlerType
<1>2. CASE CallTimesOut(s)
  <2> DEFINE a == ctl[s].try
             lost == IF \/ h[s][a].pc \in Answers
                        \/ (h[s][a].pc = "sent" /\ ~env.late)
                       THEN [h EXCEPT ![s][a].pc = "gone"]
                       ELSE [h EXCEPT ![s][a].cut = TRUE]
  <2>1. \A t \in Sessions, b \in Tries :
          lost[t][b].pc = h[t][b].pc \/ lost[t][b].pc = "gone"
    BY <1>0 DEF HandlersType, HandlerType
  <2>2. lost \in HandlersType
    BY <1>0, HandlerFacts
  <2>3. \/ /\ h' = lost
           /\ ctl' = [ctl EXCEPT ![s].pc = "failed"]
        \/ /\ a + 1 \in Tries
           /\ h' = [lost EXCEPT ![s][a + 1].pc = "sent"]
           /\ ctl' = [ctl EXCEPT ![s].try = a + 1]
    BY <1>0, <1>2, TriesFacts DEF CallTimesOut
  <2>4. UNCHANGED <<adoption, granted>>
    BY <1>2 DEF CallTimesOut
  <2> HIDE DEF a, lost
  <2>5. \A t \in Sessions \ {s} : ctl'[t] = ctl[t]
    BY <1>0, <2>3
  <2>6. CASE h' = lost
    BY <2>1, <2>4, <2>5, <2>6
  <2>7. CASE a + 1 \in Tries /\ h' = [lost EXCEPT ![s][a + 1].pc = "sent"]
    <3>1. h'[s][a + 1].pc = "sent"
      BY <2>2, <2>7 DEF HandlersType, HandlerType
    <3>2. \A t \in Sessions, b \in Tries :
            ~(t = s /\ b = a + 1) => h'[t][b] = lost[t][b]
      BY <2>2, <2>7 DEF HandlersType
    <3>3. QED
      BY <2>1, <2>4, <2>5, <3>1, <3>2
  <2>8. QED
    BY <2>3, <2>6, <2>7
<1>3. CASE AbandonAdopt(s)
  BY <1>0, <1>3 DEF AbandonAdopt, HandlersType, HandlerType
<1>4. CASE ReceiveAnswer(s)
  BY <1>0, <1>4 DEF ReceiveAnswer, HandlersType, HandlerType
<1>5. CASE ConnectionLost(s) \/ VerifyPinnedNodeHealth(s)
  BY <1>0, <1>5 DEF ConnectionLost, VerifyPinnedNodeHealth
<1>6. CASE SaveNodeTrust(s) \/ SetNodeAdopted(s)
  BY <1>0, <1>6 DEF SaveNodeTrust, SetNodeAdopted
<1>7. QED
  BY <1>1, <1>2, <1>3, <1>4, <1>5, <1>6 DEF CtlStep

LEMMA ControllerOwned ==
  ASSUME TypeOK, ~env.concurrent, Owned, NEW s \in Sessions,
         StartAdopt(s) \/ CallTimesOut(s) \/ AbandonAdopt(s) \/ CtlStep(s)
  PROVE  Owned'
<1>1. OwnerWrites' /\ WrittenStays' /\ GrantedOwns'
  BY ControllerHandlers, NoProgress
<1>2. \A t \in Sessions \ {s} : Busy(t)' => Busy(t)
  <2> SUFFICES ASSUME NEW t \in Sessions \ {s}, Busy(t)' PROVE Busy(t)
    OBVIOUS
  <2>1. CASE Active(t)'
    BY <2>1, ControllerHandlers DEF Active, Busy
  <2>2. CASE \E b \in Tries : h'[t][b].pc \in Running
    BY <2>2, ControllerHandlers DEF Running, Busy
  <2>3. QED
    BY <2>1, <2>2 DEF Busy
<1>3. CASE StartAdopt(s)
  <2>1. \A t \in Sessions : ~Busy(t)
    BY <1>3 DEF StartAdopt, HandlersIdle, Busy
  <2>2. QED
    BY <1>1, <1>2, <2>1 DEF Owned, OneSessionBusy
<1>4. CASE CallTimesOut(s) \/ AbandonAdopt(s) \/ CtlStep(s)
  <2>1. Busy(s)
    BY <1>4 DEF Busy, Active, Working, CallTimesOut, AbandonAdopt, CtlStep,
       ReceiveAnswer, ConnectionLost, VerifyPinnedNodeHealth, SaveNodeTrust,
       SetNodeAdopted
  <2>2. OneSessionBusy'
    BY <1>2, <2>1 DEF Owned, OneSessionBusy
  <2>3. QED
    BY <1>1, <2>2 DEF Owned
<1>5. QED
  BY <1>3, <1>4

(* What a handler's step does to the handlers: it moves one, which was     *)
(* running; one that enters found no adoption.json.                        *)
LEMMA HandlerMoves ==
  ASSUME TypeOK, NEW s \in Sessions, NEW a \in Tries, HandlerStep(s, a)
  PROVE  /\ h[s][a].pc \in Running
         /\ UNCHANGED ctl
         /\ \A t \in Sessions, b \in Tries :
              ~(t = s /\ b = a) => h'[t][b] = h[t][b]
         /\ h'[s][a].pc \in Entered =>
              \/ h[s][a].pc \in Entered
              \/ /\ h'[s][a].pc = "cert" /\ adoption = Nobody
                 /\ UNCHANGED <<adoption, granted>>
<1> USE DEF ctlVars, tlsVars, nutVars
<1>0. h \in HandlersType /\ h[s][a] \in HandlerType
  BY HandlerFacts DEF TypeOK, HandlersType
<1>1. \A p \in Answers : Ended(s, a, p).pc \notin Entered
  BY <1>0 DEF Ended, HandlerType, Answers, Entered, Running
<1>2. CASE StatAdoption(s, a)
  <2>1. h[s][a].pc = "sent" /\ UNCHANGED <<ctl, adoption>>
    BY <1>2 DEF StatAdoption
  <2>2. h' = [h EXCEPT ![s][a] = LookupAdoption(s, a)]
    BY <1>2 DEF StatAdoption
  <2>3. \/ adoption = Nobody /\ LookupAdoption(s, a).pc = "cert"
        \/ LookupAdoption(s, a).pc \notin Entered
    <3>1. [Ended(s, a, "ok") EXCEPT !.fp = adoptionFp].pc \notin Entered
      BY <1>0, <1>1 DEF Ended, HandlerType, Answers
    <3>2. [h[s][a] EXCEPT !.pc = "cert"].pc = "cert"
      BY <1>0 DEF HandlerType
    <3>3. QED
      BY <1>1, <3>1, <3>2 DEF LookupAdoption, Answers
  <2>4. adoption = Nobody => UNCHANGED granted
    BY <1>2, ConstantsAssumption DEF StatAdoption, ConstantsAssumption
  <2>5. /\ h'[s][a] = LookupAdoption(s, a)
        /\ \A t \in Sessions, b \in Tries :
             ~(t = s /\ b = a) => h'[t][b] = h[t][b]
    BY <1>0, <2>2 DEF HandlersType
  <2>6. QED
    BY <2>1, <2>3, <2>4, <2>5 DEF Running
<1>3. CASE RequestDropped(s, a)
  BY <1>0, <1>3 DEF RequestDropped, HandlersType, HandlerType, Entered, Running
<1>4. CASE FindCertificate(s, a) \/ WriteCertificate(s, a) \/ WriteKey(s, a)
  BY <1>0, <1>4 DEF FindCertificate, WriteCertificate, WriteKey,
                    HandlersType, Entered, Running
<1>5. CASE TruncateAdoption(s, a) \/ WriteAdoption(s, a) \/ WriteUsers(s, a)
  BY <1>0, <1>5 DEF TruncateAdoption, WriteAdoption, WriteUsers,
                    HandlersType, Entered, Running
<1>6. CASE ReloadNUT(s, a) \/ ReloadFails(s, a)
  BY <1>0, <1>6 DEF ReloadNUT, ReloadFails, HandlersType, Entered, Running
<1>7. QED
  BY <1>2, <1>3, <1>4, <1>5, <1>6 DEF HandlerStep

LEMMA HandlerOwned ==
  ASSUME TypeOK, Owned, NEW s \in Sessions, NEW a \in Tries, HandlerStep(s, a)
  PROVE  Owned'
<1> USE DEF ctlVars, tlsVars, nutVars
<1>1. Busy(s)
  BY HandlerMoves DEF Busy
<1>2. OneSessionBusy'
  <2>1. \A t \in Sessions \ {s} : Busy(t)' => Busy(t)
    BY HandlerMoves DEF Busy, Active
  <2>2. QED
    BY <1>1, <2>1 DEF Owned, OneSessionBusy
<1>3. \A t \in Sessions, b \in Tries :
        h[t][b].pc \in Entered \/ h'[t][b].pc \in Entered => t = s
  <2>1. \A t \in Sessions, b \in Tries : h[t][b].pc \in Entered => t = s
    BY <1>1 DEF Owned, OneSessionBusy, Busy, Entered
  <2>2. QED
    BY <2>1, HandlerMoves
<1>4. Torn \notin Sessions /\ Nobody \notin Sessions /\ Torn # Nobody
  BY ConstantsAssumption DEF ConstantsAssumption
<1>5. CASE TruncateAdoption(s, a)
  <2>1. adoption' = Torn /\ granted' = granted /\ h[s][a].pc \in Entered
    BY <1>5 DEF TruncateAdoption, Entered, Running
  <2>2. OwnerWrites' /\ WrittenStays'
    BY <1>4, <2>1 DEF OwnerWrites, WrittenStays
  <2>3. \A u \in granted : u = s
    BY <2>1 DEF Owned, GrantedOwns
  <2>4. GrantedOwns'
    BY <1>3, <2>1, <2>3 DEF GrantedOwns
  <2>5. QED
    BY <1>2, <2>2, <2>4 DEF Owned
<1>6. CASE WriteAdoption(s, a)
  <2>1. adoption' = s /\ granted' = granted /\ h[s][a].pc \in Entered
    BY <1>6 DEF WriteAdoption, Entered, Running
  <2>2. OwnerWrites' /\ WrittenStays'
    BY <1>3, <1>4, <2>1 DEF OwnerWrites, WrittenStays
  <2>3. \A u \in granted : u = s
    BY <2>1 DEF Owned, GrantedOwns
  <2>4. GrantedOwns'
    BY <1>3, <2>1, <2>3 DEF GrantedOwns
  <2>5. QED
    BY <1>2, <2>2, <2>4 DEF Owned
<1>7. ASSUME UNCHANGED adoption,
             h'[s][a].pc \in {"write", "users", "reload"} =>
               h[s][a].pc \in {"write", "users", "reload"},
             \/ granted' = granted
             \/ /\ granted' = granted \cup {s}
                /\ adoption = s \/ (adoption = Torn /\ h[s][a].pc \in Entered)
      PROVE  Owned'
  <2>1. \A t \in Sessions, b \in Tries :
          h'[t][b].pc \in Entered =>
            h[t][b].pc \in Entered \/ adoption = Nobody
    BY HandlerMoves
  <2>2. OwnerWrites'
    BY <1>4, <1>7, <2>1 DEF Owned, OwnerWrites
  <2>3. WrittenStays'
    BY <1>7, HandlerMoves DEF Owned, WrittenStays
  <2>4. GrantedOwns'
    <3>1. \A u \in granted : adoption # Nobody
      BY <1>4 DEF Owned, GrantedOwns, TypeOK
    <3>2. \A u \in granted :
            /\ adoption \in {u, Torn}
            /\ \A t \in Sessions, b \in Tries :
                 h'[t][b].pc \in Entered => t = u
      BY <2>1, <3>1 DEF Owned, GrantedOwns
    <3>3. granted' # granted => \A u \in granted : u = s
      BY <1>4, <1>7 DEF Owned, GrantedOwns
    <3>4. QED
      BY <1>3, <1>7, <3>2, <3>3 DEF Owned, GrantedOwns
  <2>5. QED
    BY <1>2, <2>2, <2>3, <2>4 DEF Owned
<1>8. CASE StatAdoption(s, a)
  <2>1. h'[s][a].pc \in Entered => h'[s][a].pc = "cert"
    BY <1>8, HandlerMoves DEF StatAdoption, Entered
  <2>2. h'[s][a].pc \notin {"write", "users", "reload"}
    BY <2>1 DEF Entered, Running
  <2>3. QED
    BY <1>7, <1>8, <2>2 DEF StatAdoption
<1>9. CASE ReloadNUT(s, a)
  <2>1. h[s][a].pc = "reload" /\ UNCHANGED adoption
        /\ granted' = granted \cup {s}
    BY <1>9 DEF ReloadNUT
  <2>2. adoption \in {s, Torn}
    <3>1. adoption # Nobody
      BY <2>1 DEF Owned, WrittenStays
    <3>2. adoption \in Sessions => adoption = s
      BY <2>1 DEF Owned, OwnerWrites, Entered, Running
    <3>3. QED
      BY <3>1, <3>2 DEF TypeOK, Owners
  <2>3. h[s][a].pc \in Entered
    BY <2>1 DEF Entered, Running
  <2>4. QED
    BY <1>7, <2>1, <2>2, <2>3
<1>10. CASE WriteUsers(s, a) \/ ReloadFails(s, a)
  <2>1. h[s][a].pc \in {"users", "reload"} /\ UNCHANGED <<adoption, granted>>
    BY <1>10 DEF WriteUsers, ReloadFails
  <2>2. QED
    BY <1>7, <2>1
<1>11. CASE \/ RequestDropped(s, a) \/ FindCertificate(s, a)
            \/ WriteCertificate(s, a) \/ WriteKey(s, a)
  <2>1. UNCHANGED <<adoption, granted>>
    BY <1>11 DEF RequestDropped, FindCertificate, WriteCertificate, WriteKey
  <2>2. h'[s][a].pc \notin {"write", "users", "reload"}
    <3>1. h \in HandlersType /\ h[s][a] \in HandlerType
      BY HandlerFacts DEF TypeOK, HandlersType
    <3>2. Ended(s, a, "error").pc \in {"gone", "error"}
      BY <3>1 DEF Ended, HandlerType
    <3>3. CASE RequestDropped(s, a) \/ WriteCertificate(s, a)
      BY <3>1, <3>3 DEF RequestDropped, WriteCertificate, HandlersType,
                        HandlerType
    <3>4. CASE FindCertificate(s, a)
      <4>1. CASE NoCert \notin {cert, key}
        BY <3>1, <3>4, <4>1 DEF FindCertificate, HandlersType, HandlerType
      <4>2. CASE ~(NoCert \notin {cert, key})
        BY <3>1, <3>4, <4>2 DEF FindCertificate, HandlersType, HandlerType
      <4>3. QED
        BY <4>1, <4>2
    <3>5. CASE WriteKey(s, a)
      <4>1. CASE cert = NoCert
        <5>1. h'[s][a] = Ended(s, a, "error")
          BY <3>1, <3>5, <4>1 DEF WriteKey, HandlersType
        <5>2. QED
          BY <3>2, <5>1
      <4>2. CASE cert # NoCert
        BY <3>1, <3>5, <4>2 DEF WriteKey, HandlersType, HandlerType
      <4>3. QED
        BY <4>1, <4>2
    <3>6. QED
      BY <1>11, <3>3, <3>4, <3>5
  <2>3. QED
    BY <1>7, <2>1, <2>2
<1>12. QED
  BY <1>5, <1>6, <1>8, <1>9, <1>10, <1>11 DEF HandlerStep

LEMMA NodeOwned ==
  ASSUME TypeOK, ~env.reset, Owned,
         \/ UpsertDiscoveredNode \/ HandleForgetNode
         \/ LoadRuntimeNUTUser \/ RuntimeApply
         \/ NodeRestart \/ ResetNodeState
  PROVE  Owned'
<1> USE DEF ctlVars, tlsVars, nutVars
<1>1. /\ UNCHANGED <<ctl, adoption, granted>>
      /\ \A t \in Sessions, b \in Tries :
           h'[t][b].pc = h[t][b].pc \/ h'[t][b].pc = "gone"
  <2>1. CASE NodeRestart
    BY <2>1 DEF NodeRestart, TypeOK, HandlerType
  <2>2. CASE ~NodeRestart
    BY <2>2 DEF UpsertDiscoveredNode, HandleForgetNode, LoadRuntimeNUTUser,
       RuntimeApply, ResetNodeState
  <2>3. QED
    BY <2>1, <2>2
<1>2. OneSessionBusy'
  <2>1. \A t \in Sessions : Busy(t)' => Busy(t)
    BY <1>1 DEF Busy, Active, Running
  <2>2. QED
    BY <2>1 DEF Owned, OneSessionBusy
<1>3. QED
  BY <1>1, <1>2, NoProgress DEF Owned

LEMMA NextOwnerInv == OwnerInv /\ [Next]_vars => OwnerInv'
<1> SUFFICES ASSUME OwnerInv, [Next]_vars PROVE OwnerInv'
  OBVIOUS
<1>1. TypeOK /\ TypeOK'
  BY NextTypeOK DEF OwnerInv
<1>2. /\ env'.concurrent = env.concurrent
      /\ env'.reset = env.reset
  BY <1>1, EnvKept
<1>3. ASSUME ~env.concurrent, ~env.reset PROVE Owned'
  <2>1. Owned
    BY <1>3 DEF OwnerInv
  <2>2. CASE UNCHANGED vars
    BY <2>1, <2>2 DEF vars, Owned, OneSessionBusy, OwnerWrites, WrittenStays,
                      GrantedOwns, Busy, Active
  <2>3. CASE Next
    BY <1>1, <1>3, <2>1, <2>3, NodeOwned, ControllerOwned, HandlerOwned
       DEF Next
  <2>4. QED
    BY <2>2, <2>3
<1>4. QED
  BY <1>1, <1>2, <1>3 DEF OwnerInv

(* As long as sessions do not overlap and nobody resets the node, it       *)
(* answers 200 to one session only: ApplyAdoption is one-time whatever     *)
(* times out, retries, restarts or fails.                                  *)
THEOREM AdoptionIsOneTime == Spec => []OneOwner
<1>1. OwnerInv => OneOwner
  <2> SUFFICES ASSUME OwnerInv, ~env.concurrent, ~env.reset,
                      NEW s \in granted, NEW t \in granted
               PROVE  s = t
    BY DEF OneOwner
  <2>1. QED
    BY DEF OwnerInv, Owned, GrantedOwns
<1>2. QED
  BY <1>1, InitOwnerInv, NextOwnerInv, PTL DEF Spec
-----------------------------------------------------------------------------
(* The contract.                                                           *)

LEMMA InitContractInv ==
  ASSUME Orderly, Init
  PROVE  ContractInv
<1>1. OneWriter /\ CurrentWriter /\ WriterUnowned /\ TrusterOwns
  BY DEF Init, OneWriter, CurrentWriter, WriterUnowned, TrusterOwns,
         Unwritten, Unborn
<1>2. QED
  BY <1>1, InitOwnerInv DEF ContractInv

LEMMA ControllerContract ==
  ASSUME ContractInv, OwnerInv', Orderly', NEW s \in Sessions,
         StartAdopt(s) \/ CallTimesOut(s) \/ AbandonAdopt(s) \/ CtlStep(s)
  PROVE  ContractInv'
<1>0. /\ TypeOK /\ ctl \in [Sessions -> CtlType] /\ h \in HandlersType
      /\ ctl[s].try \in Tries
  BY CtlFacts DEF ContractInv, OwnerInv, TypeOK, HandlersType
<1>1. WriterUnowned'
  <2>1. \A t \in Sessions, b \in Tries :
          h'[t][b].pc \in Unwritten \ {"sent"} => h'[t][b].pc = h[t][b].pc
    BY <1>0, ControllerHandlers DEF Unwritten
  <2>2. UNCHANGED adoption
    BY <1>0, ControllerHandlers
  <2>3. QED
    BY <2>1, <2>2 DEF ContractInv, WriterUnowned
<1>2. TrusterOwns'
  <2>1. UNCHANGED adoption /\ \A t \in Sessions \ {s} : ctl'[t] = ctl[t]
    BY <1>0, ControllerHandlers
  <2>2. ctl'[s].pc = "saveTrust" => adoption = s
    <3>1. CASE VerifyPinnedNodeHealth(s)
      BY <1>0, <3>1 DEF VerifyPinnedNodeHealth, Verified, CtlType
    <3>2. CASE ReceiveAnswer(s)
      <4>1. AfterAnswer[h[s][ctl[s].try].pc] # "saveTrust"
        BY <3>2 DEF ReceiveAnswer, AfterAnswer, Answers
      <4>2. QED
        BY <1>0, <3>2, <4>1 DEF ReceiveAnswer, CtlType
    <3>3. CASE CallTimesOut(s)
      <4>1. \/ ctl' = [ctl EXCEPT ![s].pc = "failed"]
            \/ ctl' = [ctl EXCEPT ![s].try = ctl[s].try + 1]
        <5>1. CASE MoreTries(ctl[s].try)
          BY <3>3, <5>1 DEF CallTimesOut
        <5>2. CASE ~MoreTries(ctl[s].try)
          BY <3>3, <5>2 DEF CallTimesOut
        <5>3. QED
          BY <5>1, <5>2
      <4>2. ctl[s].pc = "calling"
        BY <3>3 DEF CallTimesOut
      <4>3. ctl'[s].pc \in {"calling", "failed"}
        BY <1>0, <4>1, <4>2 DEF CtlType
      <4>4. QED
        BY <4>3
    <3>4. CASE \/ StartAdopt(s) \/ AbandonAdopt(s) \/ ConnectionLost(s)
               \/ SaveNodeTrust(s) \/ SetNodeAdopted(s)
      BY <1>0, <3>4 DEF StartAdopt, AbandonAdopt, ConnectionLost,
                        SaveNodeTrust, SetNodeAdopted, CtlType
    <3>5. QED
      BY <3>1, <3>2, <3>3, <3>4 DEF CtlStep
  <2>3. QED
    BY <2>1, <2>2 DEF ContractInv, TrusterOwns
<1>3. OneWriter' /\ CurrentWriter'
  <2>1. CASE StartAdopt(s)
    <3>1. \A t \in Sessions, b \in Tries : h[t][b].pc \notin Unwritten
      BY <2>1 DEF StartAdopt, ContractInv, Orderly, HandlersIdle, Running,
                  Unwritten
    <3>2. \A t \in Sessions, b \in Tries :
            ~(t = s /\ b = 1) => h'[t][b] = h[t][b]
      BY <1>0, <2>1 DEF StartAdopt, HandlersType
    <3>3. ctl' = [ctl EXCEPT ![s].pc = "calling"] /\ ctl[s].try = 1
      BY <1>0, <2>1 DEF StartAdopt, ContractInv, CurrentWriter
    <3>4. \A t \in Sessions :
            /\ ctl'[t].try = ctl[t].try
            /\ ctl'[t].pc = "idle" => ctl[t].pc = "idle"
      BY <1>0, <3>3 DEF CtlType
    <3>5. QED
      BY <1>0, <3>1, <3>2, <3>3, <3>4
         DEF ContractInv, OneWriter, CurrentWriter
  <2>2. CASE CallTimesOut(s)
    <3> DEFINE a == ctl[s].try
               lost == IF \/ h[s][a].pc \in Answers
                          \/ (h[s][a].pc = "sent" /\ ~env.late)
                         THEN [h EXCEPT ![s][a].pc = "gone"]
                         ELSE [h EXCEPT ![s][a].cut = TRUE]
    <3>1. \A t \in Sessions, b \in Tries :
            lost[t][b].pc = h[t][b].pc \/ lost[t][b].pc = "gone"
      BY <1>0 DEF HandlersType, HandlerType
    <3>2. lost[s][a].pc \notin Unwritten
      <4>1. h[s][a].pc = "sent" \/ h[s][a].pc \notin Unwritten
        BY <2>2 DEF CallTimesOut, ContractInv, Orderly, Unwritten
      <4>2. ~env.late
        BY DEF ContractInv, Orderly
      <4>3. QED
        BY <1>0, <4>1, <4>2 DEF HandlersType, HandlerType, Unwritten
    <3>3. ctl[s].pc = "calling"
      BY <2>2 DEF CallTimesOut
    <3>4. \A b \in Tries : lost[s][b].pc \notin Unwritten
      BY <1>0, <3>1, <3>2, <3>3
         DEF ContractInv, CurrentWriter, Unwritten
    <3>5. lost \in HandlersType
      BY <1>0, HandlerFacts
    <3>6. \/ /\ h' = lost
             /\ ctl' = [ctl EXCEPT ![s].pc = "failed"]
          \/ /\ a + 1 \in Tries
             /\ h' = [lost EXCEPT ![s][a + 1].pc = "sent"]
             /\ ctl' = [ctl EXCEPT ![s].try = a + 1]
      BY <1>0, <2>2, TriesFacts DEF CallTimesOut
    <3> HIDE DEF a, lost
    <3>7. CASE /\ h' = lost
               /\ ctl' = [ctl EXCEPT ![s].pc = "failed"]
      <4>1. \A t \in Sessions, b \in Tries :
              h'[t][b].pc \in Unwritten => h[t][b].pc \in Unwritten
        BY <3>1, <3>7 DEF Unwritten
      <4>2. /\ ctl'[s].pc = "failed"
            /\ \A t \in Sessions \ {s} : ctl'[t] = ctl[t]
        BY <1>0, <3>7 DEF CtlType
      <4>3. QED
        BY <3>7, <4>1, <4>2 DEF ContractInv, OneWriter, CurrentWriter
    <3>8. CASE /\ a + 1 \in Tries
               /\ h' = [lost EXCEPT ![s][a + 1].pc = "sent"]
               /\ ctl' = [ctl EXCEPT ![s].try = a + 1]
      <4>1. \A t \in Sessions, b \in Tries :
              ~(t = s /\ b = a + 1) => h'[t][b] = lost[t][b]
        BY <3>5, <3>8 DEF HandlersType
      <4>2. \A b \in Tries : h'[s][b].pc \in Unwritten => b = a + 1
        BY <3>4, <4>1
      <4>3. \A t \in Sessions \ {s}, b \in Tries :
              h'[t][b].pc \in Unwritten => h[t][b].pc \in Unwritten
        BY <3>1, <4>1 DEF Unwritten
      <4>4. /\ ctl'[s].try = a + 1 /\ ctl'[s].pc = "calling"
            /\ \A t \in Sessions \ {s} : ctl'[t] = ctl[t]
        BY <1>0, <3>3, <3>8 DEF CtlType
      <4>5. OneWriter'
        BY <4>2, <4>3 DEF ContractInv, OneWriter
      <4>6. CurrentWriter'
        BY <4>2, <4>3, <4>4 DEF ContractInv, CurrentWriter
      <4>7. QED
        BY <4>5, <4>6
    <3>9. QED
      BY <3>6, <3>7, <3>8
  <2>3. CASE AbandonAdopt(s) \/ CtlStep(s)
    <3>1. \A t \in Sessions, b \in Tries :
            h'[t][b].pc = h[t][b].pc \/ h'[t][b].pc = "gone"
      <4>1. CASE AbandonAdopt(s)
        BY <1>0, <4>1 DEF AbandonAdopt, HandlersType, HandlerType
      <4>2. CASE ReceiveAnswer(s)
        BY <1>0, <4>2 DEF ReceiveAnswer, HandlersType, HandlerType
      <4>3. CASE \/ ConnectionLost(s) \/ VerifyPinnedNodeHealth(s)
                 \/ SaveNodeTrust(s) \/ SetNodeAdopted(s)
        BY <4>3 DEF ConnectionLost, VerifyPinnedNodeHealth, SaveNodeTrust,
                    SetNodeAdopted
      <4>4. QED
        BY <2>3, <4>1, <4>2, <4>3 DEF CtlStep
    <3>2. \A t \in Sessions, b \in Tries :
            h'[t][b].pc \in Unwritten => h[t][b].pc \in Unwritten
      BY <3>1 DEF Unwritten
    <3>3. ctl'[s].pc \notin {"idle", "calling"}
      <4>1. CASE ReceiveAnswer(s)
        <5>1. AfterAnswer[h[s][ctl[s].try].pc] \notin {"idle", "calling"}
          BY <4>1 DEF ReceiveAnswer, AfterAnswer, Answers
        <5>2. QED
          BY <1>0, <4>1, <5>1 DEF ReceiveAnswer, CtlType
      <4>2. CASE \/ AbandonAdopt(s) \/ ConnectionLost(s)
                 \/ VerifyPinnedNodeHealth(s) \/ SaveNodeTrust(s)
                 \/ SetNodeAdopted(s)
        BY <1>0, <4>2 DEF AbandonAdopt, ConnectionLost,
           VerifyPinnedNodeHealth, SaveNodeTrust, SetNodeAdopted, CtlType
      <4>3. QED
        BY <2>3, <4>1, <4>2 DEF CtlStep
    <3>4. \A t \in Sessions \ {s} : ctl'[t] = ctl[t]
      BY <1>0, ControllerHandlers
    <3>5. QED
      BY <3>2, <3>3, <3>4 DEF ContractInv, OneWriter, CurrentWriter
  <2>4. QED
    BY <2>1, <2>2, <2>3
<1>4. QED
  BY <1>1, <1>2, <1>3 DEF ContractInv

LEMMA HandlerContract ==
  ASSUME ContractInv, OwnerInv', Orderly',
         NEW s \in Sessions, NEW a \in Tries, HandlerStep(s, a)
  PROVE  ContractInv'
<1> USE DEF ctlVars, tlsVars, nutVars
<1>0. /\ TypeOK /\ Owned /\ h \in HandlersType /\ h[s][a] \in HandlerType
  BY HandlerFacts DEF ContractInv, OwnerInv, Orderly, TypeOK, HandlersType
<1>1. Torn \notin Sessions /\ Nobody \notin Sessions
  BY ConstantsAssumption DEF ConstantsAssumption
<1>2. h'[s][a].pc \in Unwritten => h[s][a].pc \in Unwritten
  <2>1. CASE h[s][a].pc \in {"users", "reload"}
    <3>1. \A p \in Answers : Ended(s, a, p).pc \notin Unwritten
      BY <1>0 DEF Ended, HandlerType, Answers, Unwritten
    <3>2. WriteUsers(s, a) \/ ReloadNUT(s, a) \/ ReloadFails(s, a)
      BY <2>1 DEF HandlerStep, RequestDropped, StatAdoption, FindCertificate,
         WriteCertificate, WriteKey, TruncateAdoption, WriteAdoption
    <3>3. QED
      BY <1>0, <3>1, <3>2 DEF WriteUsers, ReloadNUT, ReloadFails,
         HandlersType, HandlerType, Unwritten, Answers
  <2>2. CASE h[s][a].pc \notin {"users", "reload"}
    BY <1>0, <2>2, HandlerMoves DEF Running, Unwritten
  <2>3. QED
    BY <2>1, <2>2
<1>3. \A t \in Sessions, b \in Tries :
        h'[t][b].pc \in Unwritten => h[t][b].pc \in Unwritten
  BY <1>0, <1>2, HandlerMoves
<1>4. OneWriter' /\ CurrentWriter'
  BY <1>0, <1>3, HandlerMoves DEF ContractInv, OneWriter, CurrentWriter
<1>5. CASE WriteAdoption(s, a)
  <2>1. /\ h[s][a].pc = "write" /\ adoption' = s
        /\ h'[s][a].pc = "users"
    BY <1>0, <1>5 DEF WriteAdoption, HandlersType, HandlerType
  <2>2. adoption \notin Sessions
    BY <2>1 DEF ContractInv, WriterUnowned, Unwritten
  <2>3. \A t \in Sessions, b \in Tries :
          h'[t][b].pc \notin Unwritten \ {"sent"}
    <3> SUFFICES ASSUME NEW t \in Sessions, NEW b \in Tries,
                        h'[t][b].pc \in Unwritten \ {"sent"}
                 PROVE  FALSE
      OBVIOUS
    <3>1. h[t][b].pc \in Unwritten /\ h[s][a].pc \in Unwritten
      BY <1>3, <2>1 DEF Unwritten
    <3>2. Busy(t) /\ Busy(s)
      BY <3>1 DEF Busy, Unwritten, Running
    <3>3. t = s /\ b = a
      BY <1>0, <3>1, <3>2 DEF Owned, OneSessionBusy, ContractInv, OneWriter
    <3>4. QED
      BY <2>1, <3>3 DEF Unwritten
  <2>4. WriterUnowned'
    BY <2>3 DEF WriterUnowned
  <2>5. TrusterOwns'
    BY <1>0, <2>2, HandlerMoves DEF ContractInv, TrusterOwns
  <2>6. QED
    BY <1>4, <2>4, <2>5 DEF ContractInv
<1>6. CASE TruncateAdoption(s, a)
  <2>1. h[s][a].pc = "truncate" /\ adoption' = Torn
    BY <1>6 DEF TruncateAdoption
  <2>2. adoption \notin Sessions
    BY <2>1 DEF ContractInv, WriterUnowned, Unwritten
  <2>3. WriterUnowned'
    BY <1>1, <2>1 DEF WriterUnowned
  <2>4. TrusterOwns'
    BY <1>0, <2>2, HandlerMoves DEF ContractInv, TrusterOwns
  <2>5. QED
    BY <1>4, <2>3, <2>4 DEF ContractInv
<1>7. CASE ~WriteAdoption(s, a) /\ ~TruncateAdoption(s, a)
  <2>1. UNCHANGED adoption
    BY <1>7 DEF HandlerStep, RequestDropped, StatAdoption, FindCertificate,
       WriteCertificate, WriteKey, WriteUsers, ReloadNUT, ReloadFails
  <2>2. \A t \in Sessions, b \in Tries :
          h'[t][b].pc \in Unwritten \ {"sent"} =>
            \/ h[t][b].pc \in Unwritten \ {"sent"}
            \/ adoption = Nobody
    <3>1. h'[s][a].pc \in Unwritten \ {"sent"} =>
            \/ h[s][a].pc \in Unwritten \ {"sent"}
            \/ adoption = Nobody
      BY <1>0, <1>2, HandlerMoves DEF Entered, Running, Unwritten
    <3>2. QED
      BY <1>0, <3>1, HandlerMoves
  <2>3. WriterUnowned'
    BY <1>1, <2>1, <2>2 DEF ContractInv, WriterUnowned
  <2>4. TrusterOwns'
    BY <1>0, <2>1, HandlerMoves DEF ContractInv, TrusterOwns
  <2>5. QED
    BY <1>4, <2>3, <2>4 DEF ContractInv
<1>8. QED
  BY <1>5, <1>6, <1>7

LEMMA NodeContract ==
  ASSUME ContractInv, OwnerInv', Orderly',
         \/ UpsertDiscoveredNode \/ HandleForgetNode
         \/ LoadRuntimeNUTUser \/ RuntimeApply
         \/ NodeRestart \/ ResetNodeState
  PROVE  ContractInv'
<1> USE DEF ctlVars, tlsVars, nutVars
<1>1. /\ UNCHANGED <<ctl, adoption>>
      /\ \A t \in Sessions, b \in Tries :
           h'[t][b].pc = h[t][b].pc \/ h'[t][b].pc = "gone"
  <2>1. CASE NodeRestart
    BY <2>1 DEF NodeRestart, ContractInv, OwnerInv, TypeOK, HandlerType
  <2>2. CASE ~NodeRestart
    BY <2>2 DEF UpsertDiscoveredNode, HandleForgetNode, LoadRuntimeNUTUser,
       RuntimeApply, ResetNodeState, ContractInv, Orderly
  <2>3. QED
    BY <2>1, <2>2
<1>2. \A t \in Sessions, b \in Tries :
        h'[t][b].pc \in Unwritten => h'[t][b].pc = h[t][b].pc
  BY <1>1 DEF Unwritten
<1>3. QED
  BY <1>1, <1>2 DEF ContractInv, OneWriter, CurrentWriter, WriterUnowned,
                    TrusterOwns

LEMMA NextContractInv == ContractInv /\ [Next]_vars => ContractInv'
<1> SUFFICES ASSUME ContractInv, [Next]_vars PROVE ContractInv'
  OBVIOUS
<1>1. OwnerInv'
  BY NextOwnerInv DEF ContractInv
<1>2. Orderly'
  BY EnvKept DEF ContractInv, OwnerInv, Orderly
<1>3. CASE UNCHANGED vars
  BY <1>1, <1>2, <1>3 DEF vars, ContractInv, OneWriter, CurrentWriter,
                          WriterUnowned, TrusterOwns
<1>4. CASE Next
  BY <1>1, <1>2, <1>4, NodeContract, ControllerContract, HandlerContract
     DEF Next
<1>5. QED
  BY <1>3, <1>4

Owner == IF adoption \in Sessions THEN adoption ELSE Nobody

(* Which steps change what the contract sees.                              *)
LEMMA NodeImplements ==
  ASSUME ContractInv,
         \/ UpsertDiscoveredNode \/ HandleForgetNode
         \/ LoadRuntimeNUTUser \/ RuntimeApply
         \/ NodeRestart \/ ResetNodeState
  PROVE  UNCHANGED adoption /\ reg'.token \in {reg.token, Nobody}
<1>1. CASE UpsertDiscoveredNode \/ HandleForgetNode
  BY <1>1 DEF UpsertDiscoveredNode, HandleForgetNode, NoRow
<1>2. CASE LoadRuntimeNUTUser \/ RuntimeApply \/ NodeRestart
  BY <1>2 DEF LoadRuntimeNUTUser, RuntimeApply, NodeRestart, ctlVars
<1>3. CASE ResetNodeState
  BY <1>3 DEF ResetNodeState, ContractInv, Orderly
<1>4. QED
  BY <1>1, <1>2, <1>3

LEMMA ControllerImplements ==
  ASSUME ContractInv, NEW s \in Sessions,
         StartAdopt(s) \/ CallTimesOut(s) \/ AbandonAdopt(s) \/ CtlStep(s)
  PROVE  /\ UNCHANGED adoption
         /\ \/ UNCHANGED reg.token
            \/ adoption = s /\ reg'.token = s
<1>1. TypeOK
  BY DEF ContractInv, OwnerInv
<1>2. UNCHANGED adoption
  BY <1>1, ControllerHandlers
<1>3. CASE SaveNodeTrust(s)
  <2>1. adoption = s
    BY <1>3 DEF SaveNodeTrust, ContractInv, TrusterOwns
  <2>2. CASE reg.exists
    BY <1>1, <1>2, <1>3, <2>1, <2>2 DEF SaveNodeTrust, TypeOK, RegType
  <2>3. CASE ~reg.exists
    BY <1>2, <1>3, <2>3 DEF SaveNodeTrust
  <2>4. QED
    BY <2>2, <2>3
<1>4. CASE SetNodeAdopted(s)
  <2>1. CASE reg.exists
    BY <1>1, <1>2, <1>4, <2>1 DEF SetNodeAdopted, TypeOK, RegType
  <2>2. CASE ~reg.exists
    BY <1>2, <1>4, <2>2 DEF SetNodeAdopted
  <2>3. QED
    BY <2>1, <2>2
<1>5. CASE ~SaveNodeTrust(s) /\ ~SetNodeAdopted(s)
  <2>1. UNCHANGED reg
    BY <1>5 DEF StartAdopt, CallTimesOut, AbandonAdopt, CtlStep,
       ReceiveAnswer, ConnectionLost, VerifyPinnedNodeHealth
  <2>2. QED
    BY <1>2, <2>1
<1>6. QED
  BY <1>3, <1>4, <1>5

LEMMA HandlerImplements ==
  ASSUME ContractInv, NEW s \in Sessions, NEW a \in Tries, HandlerStep(s, a)
  PROVE  /\ UNCHANGED reg
         /\ \/ UNCHANGED adoption
            \/ adoption \notin Sessions /\ adoption' \in {s, Torn}
<1> USE DEF ctlVars, tlsVars, nutVars
<1>1. UNCHANGED reg
  BY DEF HandlerStep, RequestDropped, StatAdoption, FindCertificate,
     WriteCertificate, WriteKey, TruncateAdoption, WriteAdoption,
     WriteUsers, ReloadNUT, ReloadFails
<1>2. CASE TruncateAdoption(s, a) \/ WriteAdoption(s, a)
  <2>1. /\ h[s][a].pc \in {"truncate", "write"}
        /\ adoption' \in {s, Torn}
    BY <1>2 DEF TruncateAdoption, WriteAdoption
  <2>2. adoption \notin Sessions
    BY <2>1 DEF ContractInv, WriterUnowned, Unwritten
  <2>3. QED
    BY <1>1, <2>1, <2>2
<1>3. CASE ~TruncateAdoption(s, a) /\ ~WriteAdoption(s, a)
  BY <1>1, <1>3 DEF HandlerStep, RequestDropped, StatAdoption,
     FindCertificate, WriteCertificate, WriteKey, WriteUsers, ReloadNUT,
     ReloadFails
<1>4. QED
  BY <1>2, <1>3

(* Every step of the handshake is one of the contract, or none.            *)
LEMMA StepImplements ==
  ContractInv /\ [Next]_vars =>
    [Contract!Next]_<<Owner, reg.token>>
<1> SUFFICES ASSUME ContractInv, [Next]_vars
             PROVE  Contract!Next \/ UNCHANGED <<Owner, reg.token>>
  OBVIOUS
<1>0. Torn \notin Sessions
  BY ConstantsAssumption DEF ConstantsAssumption
<1>1. CASE UNCHANGED vars
  BY <1>1 DEF vars, Owner
<1>2. CASE \/ UpsertDiscoveredNode \/ HandleForgetNode
           \/ LoadRuntimeNUTUser \/ RuntimeApply
           \/ NodeRestart \/ ResetNodeState
  <2>1. UNCHANGED Owner /\ reg'.token \in {reg.token, Nobody}
    BY <1>2, NodeImplements DEF Owner
  <2>2. QED
    BY <2>1 DEF Contract!Next, Contract!Drop, Owner
<1>3. ASSUME NEW s \in Sessions,
             \/ StartAdopt(s) \/ CallTimesOut(s) \/ AbandonAdopt(s)
             \/ CtlStep(s)
      PROVE  Contract!Next \/ UNCHANGED <<Owner, reg.token>>
  <2>1. /\ UNCHANGED adoption
        /\ UNCHANGED reg.token \/ (adoption = s /\ reg'.token = s)
    BY <1>3, ControllerImplements
  <2>2. CASE UNCHANGED reg.token
    BY <2>1, <2>2 DEF Owner
  <2>3. CASE adoption = s /\ reg'.token = s
    <3>1. Contract!Trust(s)
      BY <2>1, <2>3 DEF Contract!Trust
    <3>2. QED
      BY <3>1 DEF Contract!Next
  <2>4. QED
    BY <2>1, <2>2, <2>3
<1>4. ASSUME NEW s \in Sessions, NEW a \in Tries, HandlerStep(s, a)
      PROVE  Contract!Next \/ UNCHANGED <<Owner, reg.token>>
  <2>1. /\ UNCHANGED reg
        /\ \/ UNCHANGED adoption
           \/ adoption \notin Sessions /\ adoption' \in {s, Torn}
    BY <1>4, HandlerImplements
  <2>2. CASE adoption \notin Sessions /\ adoption' = s
    <3>1. Contract!Claim(s)
      BY <2>1, <2>2 DEF Contract!Claim
    <3>2. QED
      BY <3>1 DEF Contract!Next
  <2>3. CASE \/ UNCHANGED adoption
             \/ adoption \notin Sessions /\ adoption' = Torn
    BY <1>0, <2>1, <2>3 DEF Owner
  <2>4. QED
    BY <2>1, <2>2, <2>3
<1>5. QED
  BY <1>1, <1>2, <1>3, <1>4 DEF Next

(* When sessions take turns, no call times out before its handler wrote    *)
(* and nobody resets the node, the handshake of adoptNode, handleAdopt and *)
(* ApplyAdoption implements the contract: retries, replays, restarts,      *)
(* torn files, failing reloads and a forgotten row never replace an owner, *)
(* and SaveNodeTrust only ever stores the secret of the owner.             *)
THEOREM HandshakeImplementsContract ==
  ASSUME OrderlyEnvironments
  PROVE  Spec => ImplementsContract
<1>1. Init => ContractInv
  BY InitContractInv DEF Init, Orderly, OrderlyEnvironments
<1>2. Init => Contract!Init
  <2>1. Nobody \notin Sessions
    BY ConstantsAssumption DEF ConstantsAssumption
  <2>2. QED
    BY <2>1 DEF Init, NoRow, Contract!Init
<1>3. ContractInv /\ [Next]_vars =>
        [Contract!Next]_<<IF adoption \in Sessions THEN adoption ELSE Nobody,
                          reg.token>>
  BY StepImplements DEF Owner
<1>4. QED
  BY <1>1, <1>2, <1>3, NextContractInv, PTL
     DEF Spec, ImplementsContract, Contract!Spec
-----------------------------------------------------------------------------
(* Match.                                                                  *)

LEMMA InitMatchInv == Init => MatchInv
<1> SUFFICES ASSUME Init PROVE MatchInv
  OBVIOUS
<1>1. Matches
  BY DEF Init, Matches, VerifiedOwns, RowFollows, AdoptedMatches, NoRow
<1>2. QED
  BY <1>1, InitTrustInv, InitContractInv DEF MatchInv

(* Once adoption.json names an owner, nothing writes it or the TLS files.  *)
LEMMA OwnerStays ==
  ASSUME ContractInv, [Next]_vars, adoption \in Sessions
  PROVE  UNCHANGED <<adoption, cert, key>>
<1> USE DEF ctlVars, tlsVars, nutVars
<1>1. CASE UNCHANGED vars
  BY <1>1 DEF vars
<1>2. CASE \/ UpsertDiscoveredNode \/ HandleForgetNode
           \/ LoadRuntimeNUTUser \/ RuntimeApply
           \/ NodeRestart \/ ResetNodeState
  BY <1>2 DEF UpsertDiscoveredNode, HandleForgetNode, LoadRuntimeNUTUser,
     RuntimeApply, NodeRestart, ResetNodeState, ContractInv, Orderly
<1>3. ASSUME NEW s \in Sessions,
             \/ StartAdopt(s) \/ CallTimesOut(s) \/ AbandonAdopt(s)
             \/ CtlStep(s)
      PROVE  UNCHANGED <<adoption, cert, key>>
  BY <1>3 DEF StartAdopt, CallTimesOut, AbandonAdopt, CtlStep,
     ReceiveAnswer, ConnectionLost, VerifyPinnedNodeHealth, SaveNodeTrust,
     SetNodeAdopted
<1>4. ASSUME NEW s \in Sessions, NEW a \in Tries, HandlerStep(s, a)
      PROVE  UNCHANGED <<adoption, cert, key>>
  <2>1. h[s][a].pc \notin Unwritten \ {"sent"}
    BY DEF ContractInv, WriterUnowned
  <2>2. \/ RequestDropped(s, a) \/ StatAdoption(s, a) \/ WriteUsers(s, a)
        \/ ReloadNUT(s, a) \/ ReloadFails(s, a)
    BY <1>4, <2>1 DEF HandlerStep, FindCertificate, WriteCertificate,
       WriteKey, TruncateAdoption, WriteAdoption, Unwritten
  <2>3. QED
    BY <2>2 DEF RequestDropped, StatAdoption, WriteUsers, ReloadNUT,
       ReloadFails
<1>5. QED
  BY <1>1, <1>2, <1>3, <1>4 DEF Next

(* A session whose call timed out has failed, or makes its next call.      *)
LEMMA TimedOutSession ==
  ASSUME TypeOK, NEW s \in Sessions, CallTimesOut(s)
  PROVE  \/ ctl'[s].pc = "failed" /\ ctl'[s].try = ctl[s].try
         \/ ctl'[s].pc = "calling" /\ ctl'[s].try = ctl[s].try + 1
<1>1. ctl[s].pc = "calling"
  BY DEF CallTimesOut
<1>2. \/ ctl' = [ctl EXCEPT ![s].pc = "failed"]
      \/ ctl' = [ctl EXCEPT ![s].try = ctl[s].try + 1]
  BY DEF CallTimesOut
<1>3. ctl \in [Sessions -> CtlType]
  BY DEF TypeOK
<1>4. QED
  BY <1>1, <1>2, <1>3 DEF CtlType

LEMMA ControllerMatch ==
  ASSUME TrustInv, ContractInv, Matches, ~env.forget, NEW s \in Sessions,
         StartAdopt(s) \/ CallTimesOut(s) \/ AbandonAdopt(s) \/ CtlStep(s)
  PROVE  Matches'
<1>0. /\ TypeOK /\ ctl \in [Sessions -> CtlType] /\ reg \in RegType
      /\ \A t \in Sessions \ {s} : ctl'[t] = ctl[t]
  BY ControllerHandlers DEF TrustInv, TypeOK
<1>1. UNCHANGED <<adoption, cert, key>>
  BY DEF StartAdopt, CallTimesOut, AbandonAdopt, CtlStep, ReceiveAnswer,
     ConnectionLost, VerifyPinnedNodeHealth, SaveNodeTrust, SetNodeAdopted,
     tlsVars
<1>2. CASE VerifyPinnedNodeHealth(s)
  <2>1. /\ UNCHANGED reg
        /\ ctl'[s].fp = ctl[s].fp
        /\ ctl'[s].pc \in {"saveTrust", "failed"}
        /\ ctl'[s].pc = "saveTrust" => Verified(s)
    BY <1>0, <1>2 DEF VerifyPinnedNodeHealth, CtlType
  <2>2. QED
    BY <1>0, <1>1, <2>1
       DEF Matches, VerifiedOwns, RowFollows, AdoptedMatches, Verified
<1>3. CASE SaveNodeTrust(s)
  <2>1. ctl[s].pc = "saveTrust" /\ ctl'[s].fp = ctl[s].fp
    BY <1>0, <1>3 DEF SaveNodeTrust, CtlType
  <2>2. adoption = s /\ cert = key /\ cert = ctl[s].fp
    BY <2>1 DEF Matches, VerifiedOwns
  <2>3. \A t \in Sessions :
          t # s => ctl'[t].pc \notin {"saveTrust", "setAdopted"}
    BY <1>0, <2>2 DEF Matches, VerifiedOwns
  <2>4. VerifiedOwns'
    BY <1>1, <2>1, <2>2, <2>3 DEF VerifiedOwns
  <2>5. CASE reg.exists
    <3>1. reg'.token = s /\ reg'.fp = ctl[s].fp
      BY <1>0, <1>3, <2>5 DEF SaveNodeTrust, RegType
    <3>2. RowFollows'
      BY <2>1, <2>3, <3>1 DEF RowFollows
    <3>3. AdoptedMatches'
      BY <1>1, <2>2, <3>1 DEF AdoptedMatches
    <3>4. QED
      BY <2>4, <3>2, <3>3 DEF Matches
  <2>6. CASE ~reg.exists
    <3>1. UNCHANGED reg /\ ctl'[s].pc = "failed"
      BY <1>0, <1>3, <2>6 DEF SaveNodeTrust, CtlType
    <3>2. RowFollows' /\ AdoptedMatches'
      BY <1>1, <2>3, <3>1 DEF Matches, RowFollows, AdoptedMatches
    <3>3. QED
      BY <2>4, <3>2 DEF Matches
  <2>7. QED
    BY <2>5, <2>6
<1>4. CASE SetNodeAdopted(s)
  <2>1. /\ ctl[s].pc = "setAdopted"
        /\ ctl'[s].pc \in {"done", "failed"}
        /\ reg'.token = reg.token /\ reg'.fp = reg.fp
    BY <1>0, <1>4 DEF SetNodeAdopted, CtlType, RegType
  <2>2. /\ adoption = s /\ cert = key /\ cert = ctl[s].fp
        /\ reg.token = s /\ reg.fp = ctl[s].fp
    BY <2>1 DEF Matches, VerifiedOwns, RowFollows
  <2>3. AdoptedMatches'
    BY <1>1, <2>1, <2>2 DEF AdoptedMatches
  <2>4. VerifiedOwns' /\ RowFollows'
    BY <1>0, <1>1, <2>1 DEF Matches, VerifiedOwns, RowFollows
  <2>5. QED
    BY <2>3, <2>4 DEF Matches
<1>5. CASE \/ StartAdopt(s) \/ CallTimesOut(s) \/ AbandonAdopt(s)
           \/ ReceiveAnswer(s) \/ ConnectionLost(s)
  <2>1. UNCHANGED reg
    BY <1>5 DEF StartAdopt, CallTimesOut, AbandonAdopt, ReceiveAnswer,
       ConnectionLost
  <2>2. ctl'[s].pc \notin {"saveTrust", "setAdopted"}
    <3>1. CASE ReceiveAnswer(s)
      <4>1. AfterAnswer[h[s][ctl[s].try].pc]
              \notin {"saveTrust", "setAdopted"}
        BY <3>1 DEF ReceiveAnswer, AfterAnswer, Answers
      <4>2. QED
        BY <1>0, <3>1, <4>1 DEF ReceiveAnswer, CtlType
    <3>2. CASE StartAdopt(s)
      BY <1>0, <3>2 DEF StartAdopt, CtlType
    <3>3. CASE CallTimesOut(s)
      BY <1>0, <3>3, TimedOutSession
    <3>4. CASE AbandonAdopt(s) \/ ConnectionLost(s)
      BY <1>0, <3>4 DEF AbandonAdopt, ConnectionLost, CtlType
    <3>5. QED
      BY <1>5, <3>1, <3>2, <3>3, <3>4
  <2>3. QED
    BY <1>0, <1>1, <2>1, <2>2
       DEF Matches, VerifiedOwns, RowFollows, AdoptedMatches
<1>6. QED
  BY <1>2, <1>3, <1>4, <1>5 DEF CtlStep

(* Every other step leaves the sessions alone and, but for a node that is  *)
(* discovered, the row.                                                    *)
LEMMA NodeMatch ==
  ASSUME TrustInv, ContractInv, Matches, ~env.forget, [Next]_vars,
         UNCHANGED ctl,
         UNCHANGED reg \/ UpsertDiscoveredNode
  PROVE  Matches'
<1>1. adoption \in Sessions => UNCHANGED <<adoption, cert, key>>
  BY OwnerStays
<1>2. VerifiedOwns'
  BY <1>1 DEF Matches, VerifiedOwns
<1>3. CASE UNCHANGED reg
  BY <1>1, <1>2, <1>3 DEF Matches, RowFollows, AdoptedMatches
<1>4. CASE UpsertDiscoveredNode
  <2>1. ~reg.exists /\ ~reg'.adopted
    BY <1>4 DEF UpsertDiscoveredNode, NoRow
  <2>2. \A s \in Sessions : ctl'[s].pc # "setAdopted"
    BY <2>1 DEF TrustInv, RowIsTrusted, RowHasTrust
  <2>3. QED
    BY <1>2, <2>1, <2>2 DEF Matches, RowFollows, AdoptedMatches
<1>5. QED
  BY <1>3, <1>4

LEMMA NextMatches ==
  ASSUME TrustInv, ContractInv, Matches, ~env.forget, [Next]_vars
  PROVE  Matches'
<1> USE DEF ctlVars, tlsVars, nutVars
<1>1. CASE UNCHANGED vars
  <2>1. UNCHANGED ctl /\ UNCHANGED reg
    BY <1>1 DEF vars
  <2>2. QED
    BY <2>1, NodeMatch
<1>2. CASE \/ UpsertDiscoveredNode \/ HandleForgetNode
           \/ LoadRuntimeNUTUser \/ RuntimeApply
           \/ NodeRestart \/ ResetNodeState
  <2>1. UNCHANGED ctl /\ (UNCHANGED reg \/ UpsertDiscoveredNode)
    BY <1>2 DEF UpsertDiscoveredNode, HandleForgetNode, LoadRuntimeNUTUser,
       RuntimeApply, NodeRestart, ResetNodeState, ContractInv, Orderly
  <2>2. QED
    BY <2>1, NodeMatch
<1>3. ASSUME NEW s \in Sessions, NEW a \in Tries, HandlerStep(s, a)
      PROVE  Matches'
  <2>1. UNCHANGED ctl /\ UNCHANGED reg
    BY <1>3, HandlerImplements, HandlerMoves DEF TrustInv
  <2>2. QED
    BY <2>1, NodeMatch
<1>4. QED
  BY <1>1, <1>2, <1>3, ControllerMatch DEF Next

LEMMA NextMatchInv == MatchInv /\ [Next]_vars => MatchInv'
<1> SUFFICES ASSUME MatchInv, [Next]_vars PROVE MatchInv'
  OBVIOUS
<1>1. TrustInv /\ TrustInv' /\ TypeOK
  BY NextTrustInv DEF MatchInv, TrustInv
<1>2. (Orderly' <=> Orderly) /\ (Steady' <=> Steady)
  BY <1>1, EnvKept DEF Orderly, Steady
<1>3. Orderly => ContractInv'
  BY NextContractInv DEF MatchInv
<1>4. Steady => Matches'
  BY <1>1, NextMatches DEF MatchInv, Steady
<1>5. QED
  BY <1>1, <1>2, <1>3, <1>4 DEF MatchInv

(* A row that SetNodeAdopted marked adopted holds the token in             *)
(* adoption.json and the fingerprint of a certificate with its key,        *)
(* whatever times out after its handler wrote, restarts or fails.          *)
THEOREM AdoptedRowMatchesNode == Spec => []TrustMatchesNode
<1>1. MatchInv => TrustMatchesNode
  BY DEF MatchInv, Matches, Steady, Orderly, AdoptedMatches,
         TrustMatchesNode
<1>2. QED
  BY <1>1, InitMatchInv, NextMatchInv, PTL DEF Spec
-----------------------------------------------------------------------------
(* Serving.                                                                *)

LEMMA InitServeInv == Init => ServeInv
<1> SUFFICES ASSUME Init PROVE ServeInv
  OBVIOUS
<1>1. IdleFresh /\ FirstAlone
  BY DEF Init, IdleFresh, FirstAlone, Unborn
<1>2. 1 \in Tries
  BY TriesFacts
<1>3. FirstUnowned /\ FirstReloads /\ FirstAnswered /\ RowServed
  BY <1>2, ConstantsAssumption DEF Init, ConstantsAssumption, FirstUnowned,
     FirstReloads, FirstAnswered, RowServed, Unborn, NoRow
<1>4. runtime = RuntimeIdle
  BY DEF Init
<1>5. QED
  BY <1>1, <1>3, <1>4, InitTrustInv, InitOwnerInv DEF ServeInv, Serving

(* A step that leaves adoption.json and users alone, ends handlers at      *)
(* most, and moves sessions on with an answer only, keeps what is served.  *)
LEMMA ServingKept ==
  ASSUME Serving, UNCHANGED <<adoption, users, runtime>>,
         \A t \in Sessions : Served(t) => Served(t)',
         \A t \in Sessions : ctl'[t].try = 1 => ctl[t].try = 1,
         \A t \in Sessions :
           ctl'[t].pc = "idle" =>
             ctl[t].pc = "idle" /\ ctl'[t].try = ctl[t].try,
         \A t \in Sessions, b \in Tries :
           ctl'[t].try = 1 =>
             \/ h'[t][b].pc = h[t][b].pc
             \/ h'[t][b].pc = "gone" /\ h[t][b].pc # "none",
         \A t \in Sessions :
           ctl'[t].pc \in {"verify", "saveTrust", "setAdopted"} =>
             \/ ctl[t].pc \in {"verify", "saveTrust", "setAdopted"}
             \/ ctl'[t].try = 1 => h[t][1].pc = "ok",
         \/ reg'.token \in {reg.token, Nobody}
         \/ ctl[reg'.token].pc = "saveTrust"
  PROVE  Serving'
<1>1. 1 \in Tries
  BY TriesFacts
<1>2. IdleFresh' /\ FirstAlone'
  BY DEF Serving, IdleFresh, FirstAlone
<1>3. FirstUnowned' /\ FirstReloads'
  BY <1>1 DEF Serving, FirstUnowned, FirstReloads, Unwritten
<1>4. FirstAnswered'
  BY <1>1 DEF Serving, FirstAnswered
<1>5. RowServed'
  <2> SUFFICES ASSUME NEW t \in Sessions, t = reg'.token, ctl'[t].try = 1
               PROVE  Served(t)'
    BY DEF RowServed
  <2>1. ctl[t].try = 1
    OBVIOUS
  <2>2. t # Nobody
    BY ConstantsAssumption DEF ConstantsAssumption
  <2>3. reg.token = t \/ ctl[t].pc = "saveTrust"
    BY <2>2
  <2>4. Served(t)
    BY <2>1, <2>3 DEF Serving, RowServed, FirstAnswered
  <2>5. QED
    BY <2>4
<1>6. QED
  BY <1>2, <1>3, <1>4, <1>5 DEF Serving

(* What a call that timed out does to the handlers, seen from a session    *)
(* that has made one call.                                                 *)
LEMMA TimedOutHandlers ==
  ASSUME TypeOK, NEW s \in Sessions, CallTimesOut(s),
         NEW t \in Sessions, NEW b \in Tries, ctl'[t].try = 1
  PROVE  \/ h'[t][b].pc = h[t][b].pc
         \/ h'[t][b].pc = "gone" /\ h[t][b].pc # "none"
<1> DEFINE a == ctl[s].try
           lost == IF \/ h[s][a].pc \in Answers
                      \/ (h[s][a].pc = "sent" /\ ~env.late)
                     THEN [h EXCEPT ![s][a].pc = "gone"]
                     ELSE [h EXCEPT ![s][a].cut = TRUE]
<1>1. /\ ctl \in [Sessions -> CtlType] /\ h \in HandlersType /\ a \in Tries
  BY CtlFacts DEF TypeOK, HandlersType
<1>2. \/ lost[t][b].pc = h[t][b].pc
      \/ lost[t][b].pc = "gone" /\ h[t][b].pc # "none"
  BY <1>1 DEF HandlersType, HandlerType, Answers
<1>3. lost \in HandlersType
  BY <1>1, HandlerFacts
<1>4. \/ h' = lost
      \/ /\ a + 1 \in Tries
         /\ h' = [lost EXCEPT ![s][a + 1].pc = "sent"]
         /\ ctl' = [ctl EXCEPT ![s].try = a + 1]
  BY <1>1, TriesFacts DEF CallTimesOut
<1> HIDE DEF lost
<1>5. CASE h' = lost
  BY <1>2, <1>5
<1>6. CASE /\ a + 1 \in Tries
           /\ h' = [lost EXCEPT ![s][a + 1].pc = "sent"]
           /\ ctl' = [ctl EXCEPT ![s].try = a + 1]
  <2>1. a + 1 # 1
    BY <1>1 DEF Tries
  <2>2. t # s
    BY <1>1, <1>6, <2>1 DEF CtlType
  <2>3. h'[t] = lost[t]
    BY <1>3, <1>6, <2>2 DEF HandlersType
  <2>4. QED
    BY <1>2, <2>3
<1>7. QED
  BY <1>4, <1>5, <1>6

LEMMA ControllerServe ==
  ASSUME TypeOK, Serving, NEW s \in Sessions,
         StartAdopt(s) \/ CallTimesOut(s) \/ AbandonAdopt(s) \/ CtlStep(s)
  PROVE  Serving'
<1>0. /\ ctl \in [Sessions -> CtlType] /\ h \in HandlersType
      /\ reg \in RegType /\ ctl[s].try \in Tries /\ 1 \in Tries
      /\ \A t \in Sessions \ {s} : ctl'[t] = ctl[t]
  BY CtlFacts, TriesFacts, ControllerHandlers DEF TypeOK, HandlersType
<1>1. UNCHANGED <<adoption, granted, users, loaded, runtime>>
  BY DEF StartAdopt, CallTimesOut, AbandonAdopt, CtlStep, ReceiveAnswer,
     ConnectionLost, VerifyPinnedNodeHealth, SaveNodeTrust, SetNodeAdopted,
     nutVars
<1>2. \A t \in Sessions : Served(t) => Served(t)'
  BY <1>1 DEF Served
<1>3. CASE StartAdopt(s)
  <2>1. /\ ctl[s].pc = "idle" /\ UNCHANGED reg
        /\ ctl'[s].pc = "calling" /\ ctl'[s].try = ctl[s].try
        /\ h'[s][1].pc = "sent"
        /\ \A t \in Sessions, b \in Tries :
             ~(t = s /\ b = 1) => h'[t][b] = h[t][b]
    BY <1>0, <1>3 DEF StartAdopt, CtlType, HandlersType, HandlerType
  <2>2. h[s][1].pc = "none" /\ ctl[s].try = 1 /\ adoption # s
    BY <1>0, <2>1 DEF Serving, IdleFresh, FirstUnowned
  <2>3. IdleFresh' /\ FirstAlone'
    BY <1>0, <2>1, <2>2 DEF Serving, IdleFresh, FirstAlone
  <2>4. FirstUnowned' /\ FirstReloads'
    BY <1>0, <1>1, <2>1, <2>2
       DEF Serving, FirstUnowned, FirstReloads, Unwritten
  <2>5. FirstAnswered'
    BY <1>0, <1>2, <2>1 DEF Serving, FirstAnswered
  <2>6. RowServed'
    BY <1>0, <1>2, <2>1 DEF Serving, RowServed
  <2>7. QED
    BY <1>1, <2>3, <2>4, <2>5, <2>6 DEF Serving
<1>4. CASE CallTimesOut(s)
  <2>1. UNCHANGED reg
    BY <1>4 DEF CallTimesOut
  <2>2. /\ ctl'[s].pc \in {"failed", "calling"}
        /\ ctl'[s].try = 1 => ctl[s].try = 1
    <3>1. ctl[s].try + 1 # 1
      BY <1>0 DEF Tries
    <3>2. QED
      BY <1>4, <3>1, TimedOutSession
  <2>3. \A t \in Sessions, b \in Tries :
          ctl'[t].try = 1 =>
            \/ h'[t][b].pc = h[t][b].pc
            \/ h'[t][b].pc = "gone" /\ h[t][b].pc # "none"
    BY <1>4, TimedOutHandlers
  <2>4. QED
    BY <1>0, <1>1, <1>2, <2>1, <2>2, <2>3, ServingKept
<1>5. CASE AbandonAdopt(s) \/ CtlStep(s)
  <2>1. \A t \in Sessions, b \in Tries :
          \/ h'[t][b].pc = h[t][b].pc
          \/ h'[t][b].pc = "gone" /\ h[t][b].pc # "none"
    <3>1. CASE AbandonAdopt(s)
      BY <1>0, <3>1 DEF AbandonAdopt, HandlersType, HandlerType, Answers
    <3>2. CASE ReceiveAnswer(s)
      BY <1>0, <3>2 DEF ReceiveAnswer, HandlersType, HandlerType, Answers
    <3>3. CASE \/ ConnectionLost(s) \/ VerifyPinnedNodeHealth(s)
               \/ SaveNodeTrust(s) \/ SetNodeAdopted(s)
      BY <3>3 DEF ConnectionLost, VerifyPinnedNodeHealth, SaveNodeTrust,
                  SetNodeAdopted
    <3>4. QED
      BY <1>5, <3>1, <3>2, <3>3 DEF CtlStep
  <2>2. ctl'[s].try = ctl[s].try /\ ctl'[s].pc # "idle"
    <3>1. CASE ReceiveAnswer(s)
      <4>1. AfterAnswer[h[s][ctl[s].try].pc] # "idle"
        BY <3>1 DEF ReceiveAnswer, AfterAnswer, Answers
      <4>2. QED
        BY <1>0, <3>1, <4>1 DEF ReceiveAnswer, CtlType
    <3>2. CASE \/ AbandonAdopt(s) \/ ConnectionLost(s)
               \/ VerifyPinnedNodeHealth(s) \/ SaveNodeTrust(s)
               \/ SetNodeAdopted(s)
      BY <1>0, <3>2 DEF AbandonAdopt, ConnectionLost,
         VerifyPinnedNodeHealth, SaveNodeTrust, SetNodeAdopted, CtlType
    <3>3. QED
      BY <1>5, <3>1, <3>2 DEF CtlStep
  <2>3. ctl'[s].pc \in {"verify", "saveTrust", "setAdopted"} =>
          \/ ctl[s].pc \in {"verify", "saveTrust", "setAdopted"}
          \/ ctl'[s].try = 1 => h[s][1].pc = "ok"
    <3>1. CASE ReceiveAnswer(s)
      <4>1. AfterAnswer[h[s][ctl[s].try].pc]
              \in {"verify", "saveTrust", "setAdopted"}
              => h[s][ctl[s].try].pc = "ok"
        BY <3>1 DEF ReceiveAnswer, AfterAnswer, Answers
      <4>2. ctl'[s].pc = AfterAnswer[h[s][ctl[s].try].pc]
        BY <1>0, <3>1 DEF ReceiveAnswer, CtlType
      <4>3. QED
        BY <2>2, <4>1, <4>2
    <3>2. CASE AbandonAdopt(s) \/ ConnectionLost(s)
      BY <1>0, <3>2 DEF AbandonAdopt, ConnectionLost, CtlType
    <3>3. CASE VerifyPinnedNodeHealth(s) \/ SaveNodeTrust(s)
               \/ SetNodeAdopted(s)
      BY <3>3 DEF VerifyPinnedNodeHealth, SaveNodeTrust, SetNodeAdopted
    <3>4. QED
      BY <1>5, <3>1, <3>2, <3>3 DEF CtlStep
  <2>4. \/ reg'.token = reg.token
        \/ ctl[reg'.token].pc = "saveTrust"
    <3>1. CASE SaveNodeTrust(s)
      BY <1>0, <3>1 DEF SaveNodeTrust, RegType
    <3>2. CASE SetNodeAdopted(s)
      BY <1>0, <3>2 DEF SetNodeAdopted, RegType
    <3>3. CASE \/ AbandonAdopt(s) \/ ReceiveAnswer(s) \/ ConnectionLost(s)
               \/ VerifyPinnedNodeHealth(s)
      BY <3>3 DEF AbandonAdopt, ReceiveAnswer, ConnectionLost,
         VerifyPinnedNodeHealth
    <3>4. QED
      BY <1>5, <3>1, <3>2, <3>3 DEF CtlStep
  <2>5. QED
    BY <1>0, <1>1, <1>2, <2>1, <2>2, <2>3, <2>4, ServingKept
<1>6. QED
  BY <1>3, <1>4, <1>5

(* Where a handler's step takes it, as far as serving is concerned.        *)
LEMMA HandlerGoes ==
  ASSUME TypeOK, NEW s \in Sessions, NEW a \in Tries, HandlerStep(s, a)
  PROVE  /\ h'[s][a].pc \in Unwritten \cup {"none"} =>
              h[s][a].pc \in Unwritten /\ adoption' \in {adoption, Torn}
         /\ h'[s][a].pc = "reload" => users' = s
         /\ h'[s][a].pc = "ok" =>
              \/ h[s][a].pc = "sent" /\ adoption = s
              \/ /\ h[s][a].pc = "reload"
                 /\ loaded' = users /\ users' = users /\ s \in granted'
<1> USE DEF ctlVars, tlsVars, nutVars
<1>0. h \in HandlersType /\ h[s][a] \in HandlerType
  BY HandlerFacts DEF TypeOK, HandlersType
<1>1. \A p \in Answers : Ended(s, a, p).pc \in {"gone", p}
  BY <1>0 DEF Ended, HandlerType
<1>2. CASE StatAdoption(s, a)
  <2>1. h[s][a].pc = "sent" /\ UNCHANGED adoption
    BY <1>2 DEF StatAdoption
  <2>2. h'[s][a] = LookupAdoption(s, a)
    BY <1>0, <1>2 DEF StatAdoption, HandlersType
  <2>3. \/ LookupAdoption(s, a).pc \in {"cert", "gone", "error", "conflict"}
        \/ LookupAdoption(s, a).pc = "ok" /\ adoption = s
    <3>1. [Ended(s, a, "ok") EXCEPT !.fp = adoptionFp].pc \in {"ok", "gone"}
      BY <1>0, <1>1 DEF Ended, HandlerType, Answers
    <3>2. [h[s][a] EXCEPT !.pc = "cert"].pc = "cert"
      BY <1>0 DEF HandlerType
    <3>3. QED
      BY <1>1, <3>1, <3>2 DEF LookupAdoption, Answers
  <2>4. QED
    BY <2>1, <2>2, <2>3 DEF Unwritten
<1>3. CASE RequestDropped(s, a)
  BY <1>0, <1>3 DEF RequestDropped, HandlersType, HandlerType, Unwritten
<1>4. CASE FindCertificate(s, a) \/ WriteCertificate(s, a) \/ WriteKey(s, a)
  <2>1. h[s][a].pc \in Unwritten /\ UNCHANGED adoption
    BY <1>4 DEF FindCertificate, WriteCertificate, WriteKey, Unwritten
  <2>2. h'[s][a].pc \notin {"none", "reload", "ok"}
    <3>1. CASE FindCertificate(s, a)
      BY <1>0, <3>1 DEF FindCertificate, HandlersType, HandlerType
    <3>2. CASE WriteCertificate(s, a)
      BY <1>0, <3>2 DEF WriteCertificate, HandlersType, HandlerType
    <3>3. CASE WriteKey(s, a)
      <4>1. Ended(s, a, "error").pc \in {"gone", "error"}
        BY <1>1 DEF Answers
      <4>2. [h[s][a] EXCEPT !.pc = "truncate", !.fp = cert].pc = "truncate"
        BY <1>0 DEF HandlerType
      <4>3. \/ h'[s][a] = Ended(s, a, "error")
            \/ h'[s][a] = [h[s][a] EXCEPT !.pc = "truncate", !.fp = cert]
        BY <1>0, <3>3 DEF WriteKey, HandlersType
      <4>4. QED
        BY <4>1, <4>2, <4>3
    <3>4. QED
      BY <1>4, <3>1, <3>2, <3>3
  <2>3. QED
    BY <2>1, <2>2
<1>5. CASE TruncateAdoption(s, a) \/ WriteAdoption(s, a) \/ WriteUsers(s, a)
  BY <1>0, <1>5 DEF TruncateAdoption, WriteAdoption, WriteUsers,
                    HandlersType, HandlerType, Unwritten
<1>6. CASE ReloadNUT(s, a) \/ ReloadFails(s, a)
  BY <1>0, <1>1, <1>6
     DEF ReloadNUT, ReloadFails, HandlersType, Unwritten, Answers
<1>7. QED
  BY <1>2, <1>3, <1>4, <1>5, <1>6 DEF HandlerStep

LEMMA HandlerServe ==
  ASSUME TypeOK, Owned, Serving,
         NEW s \in Sessions, NEW a \in Tries, HandlerStep(s, a)
  PROVE  Serving'
<1> USE DEF ctlVars, tlsVars, nutVars
<1>0. /\ 1 \in Tries /\ Torn \notin Sessions
      /\ h[s][a].pc \in Running
      /\ \A t \in Sessions, b \in Tries :
           ~(t = s /\ b = a) => h'[t][b] = h[t][b]
  BY TriesFacts, HandlerMoves, ConstantsAssumption DEF ConstantsAssumption
<1>1. UNCHANGED <<ctl, reg, runtime>>
  BY DEF HandlerStep, RequestDropped, StatAdoption, FindCertificate,
     WriteCertificate, WriteKey, TruncateAdoption, WriteAdoption,
     WriteUsers, ReloadNUT, ReloadFails
<1>2. ctl[s].pc # "idle" /\ (ctl[s].try = 1 => a = 1)
  BY <1>0 DEF Serving, IdleFresh, FirstAlone, Running
<1>3. \A t \in Sessions : Served(t) => Served(t)'
  <2> SUFFICES ASSUME NEW t \in Sessions, Served(t) PROVE Served(t)'
    OBVIOUS
  <2>1. CASE WriteUsers(s, a)
    <3>1. h[s][a].pc \in Entered
      BY <2>1 DEF WriteUsers, Entered, Running
    <3>2. s = t
      BY <3>1 DEF Owned, GrantedOwns, Served
    <3>3. QED
      BY <2>1, <3>2 DEF WriteUsers, Served
  <2>2. CASE ReloadNUT(s, a)
    BY <2>2 DEF ReloadNUT, Served
  <2>3. CASE ~WriteUsers(s, a) /\ ~ReloadNUT(s, a)
    BY <2>3 DEF HandlerStep, RequestDropped, StatAdoption, FindCertificate,
       WriteCertificate, WriteKey, TruncateAdoption, WriteAdoption,
       ReloadFails, Served
  <2>4. QED
    BY <2>1, <2>2, <2>3
<1>4. IdleFresh' /\ FirstAlone'
  BY <1>0, <1>1, <1>2 DEF Serving, IdleFresh, FirstAlone
<1>5. FirstUnowned'
  <2> SUFFICES ASSUME NEW t \in Sessions, ctl[t].try = 1,
                      h'[t][1].pc \in Unwritten \cup {"none"}
               PROVE  adoption' # t
    BY <1>1 DEF FirstUnowned
  <2>1. CASE t = s
    <3>1. h[s][1].pc \in Unwritten /\ adoption' \in {adoption, Torn}
      BY <1>2, <2>1, HandlerGoes
    <3>2. adoption # s
      BY <2>1, <3>1 DEF Serving, FirstUnowned
    <3>3. QED
      BY <1>0, <2>1, <3>1, <3>2
  <2>2. CASE t # s
    <3>1. adoption # t
      BY <1>0, <2>2 DEF Serving, FirstUnowned
    <3>2. adoption' \in {adoption, s, Torn}
      BY DEF HandlerStep, RequestDropped, StatAdoption, FindCertificate,
         WriteCertificate, WriteKey, TruncateAdoption, WriteAdoption,
         WriteUsers, ReloadNUT, ReloadFails
    <3>3. QED
      BY <1>0, <2>2, <3>1, <3>2
  <2>3. QED
    BY <2>1, <2>2
<1>6. FirstReloads'
  <2> SUFFICES ASSUME NEW t \in Sessions, ctl[t].try = 1,
                      h'[t][1].pc = "reload"
               PROVE  users' = t
    BY <1>1 DEF FirstReloads
  <2>1. CASE t = s
    BY <1>2, <2>1, HandlerGoes
  <2>2. CASE t # s
    <3>1. h[t][1].pc = "reload"
      BY <1>0, <2>2
    <3>2. Busy(s) /\ Busy(t)
      BY <1>0, <3>1 DEF Busy, Running
    <3>3. QED
      BY <2>2, <3>2 DEF Owned, OneSessionBusy
  <2>3. QED
    BY <2>1, <2>2
<1>7. FirstAnswered'
  <2> SUFFICES ASSUME NEW t \in Sessions, ctl[t].try = 1,
                      \/ h'[t][1].pc = "ok"
                      \/ ctl[t].pc \in {"verify", "saveTrust", "setAdopted"}
               PROVE  Served(t)'
    BY <1>1 DEF FirstAnswered
  <2>1. CASE \/ t # s
             \/ ctl[t].pc \in {"verify", "saveTrust", "setAdopted"}
    <3>1. Served(t)
      BY <1>0, <2>1 DEF Serving, FirstAnswered
    <3>2. QED
      BY <1>3, <3>1
  <2>2. CASE t = s /\ h'[s][1].pc = "ok"
    <3>1. ~(h[s][1].pc = "sent" /\ adoption = s)
      BY <2>2 DEF Serving, FirstUnowned, Unwritten
    <3>2. /\ h[s][1].pc = "reload"
          /\ loaded' = users /\ users' = users /\ s \in granted'
      BY <1>2, <2>2, <3>1, HandlerGoes
    <3>3. users = s
      BY <2>2, <3>2 DEF Serving, FirstReloads
    <3>4. QED
      BY <2>2, <3>2, <3>3 DEF Served
  <2>3. QED
    BY <2>1, <2>2
<1>8. RowServed'
  BY <1>1, <1>3 DEF Serving, RowServed
<1>9. QED
  BY <1>1, <1>4, <1>5, <1>6, <1>7, <1>8 DEF Serving

LEMMA NodeServe ==
  ASSUME TypeOK, Alone, Serving,
         \/ UpsertDiscoveredNode \/ HandleForgetNode
         \/ LoadRuntimeNUTUser \/ RuntimeApply
         \/ NodeRestart \/ ResetNodeState
  PROVE  Serving'
<1> USE DEF ctlVars, tlsVars, nutVars
<1>1. UpsertDiscoveredNode \/ HandleForgetNode \/ NodeRestart
  BY DEF Alone, Serving, LoadRuntimeNUTUser, RuntimeApply, ResetNodeState
<1>2. UNCHANGED <<ctl, adoption, users>>
  BY <1>1 DEF UpsertDiscoveredNode, HandleForgetNode, NodeRestart
<1>3. UNCHANGED runtime
  BY <1>1 DEF UpsertDiscoveredNode, HandleForgetNode, NodeRestart, Serving
<1>4. \A t \in Sessions : Served(t) => Served(t)'
  BY <1>1 DEF UpsertDiscoveredNode, HandleForgetNode, NodeRestart, Served
<1>5. reg'.token \in {reg.token, Nobody}
  BY <1>1 DEF UpsertDiscoveredNode, HandleForgetNode, NodeRestart, NoRow
<1>6. \A t \in Sessions, b \in Tries :
        \/ h'[t][b].pc = h[t][b].pc
        \/ h'[t][b].pc = "gone" /\ h[t][b].pc # "none"
  <2>1. CASE NodeRestart
    BY <2>1 DEF NodeRestart, TypeOK, HandlerType, Running, Answers
  <2>2. CASE UpsertDiscoveredNode \/ HandleForgetNode
    BY <2>2 DEF UpsertDiscoveredNode, HandleForgetNode
  <2>3. QED
    BY <1>1, <2>1, <2>2
<1>7. QED
  BY <1>2, <1>3, <1>4, <1>5, <1>6, ServingKept

LEMMA NextServeInv == ServeInv /\ [Next]_vars => ServeInv'
<1> SUFFICES ASSUME ServeInv, [Next]_vars PROVE ServeInv'
  OBVIOUS
<1>1. TrustInv' /\ OwnerInv' /\ TypeOK
  BY NextTrustInv, NextOwnerInv DEF ServeInv, TrustInv
<1>2. Alone' <=> Alone
  BY <1>1, EnvKept DEF Alone
<1>3. ASSUME Alone PROVE Serving'
  <2>1. Serving /\ Owned
    BY <1>3 DEF ServeInv, OwnerInv, Alone
  <2>2. CASE UNCHANGED vars
    BY <2>1, <2>2 DEF vars, Serving, IdleFresh, FirstAlone, FirstUnowned,
       FirstReloads, FirstAnswered, RowServed, Served
  <2>3. CASE Next
    BY <1>1, <1>3, <2>1, <2>3, NodeServe, ControllerServe, HandlerServe
       DEF Next
  <2>4. QED
    BY <2>2, <2>3
<1>4. QED
  BY <1>1, <1>2, <1>3 DEF ServeInv

(* The upsd of a node that was adopted with one call has loaded the user   *)
(* the controller knows, and keeps it, although systemctl may fail, calls  *)
(* may time out early and the agent may restart at any time: the answer    *)
(* 200 of a first call is given after ReloadNUT.                           *)
THEOREM FirstCallIsServed == Spec => []FirstCallServesController
<1>1. ServeInv => FirstCallServesController
  <2> SUFFICES ASSUME ServeInv, reg.adopted, Alone, ~env.forget,
                      ctl[reg.token].try = 1
               PROVE  loaded = reg.token
    BY DEF FirstCallServesController, Alone
  <2>1. reg.token \in Sessions
    BY DEF ServeInv, TrustInv, RowIsTrusted, RowHasTrust, TypeOK, RegType,
           Owners
  <2>2. QED
    BY <2>1 DEF ServeInv, Serving, RowServed, Served
<1>2. QED
  BY <1>1, InitServeInv, NextServeInv, PTL DEF Spec
=============================================================================
