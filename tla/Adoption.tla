------------------------------ MODULE Adoption ------------------------------
(***************************************************************************)
(* The adoption handshake between the controller and one node:             *)
(* handleAdoptNode/adoptNode and handleForgetNode of the controller,       *)
(* POST /adopt with RuntimeAdopter.ApplyAdoption on the node, the node's   *)
(* hotplug runtime as far as it rewrites upsd.users, the registry row of   *)
(* the node, and "strom-agent reset".                                      *)
(*                                                                         *)
(* A session is one run of adoptNode. It draws a fresh API token and NUT   *)
(* password, so a session stands for its secrets: a file or database field *)
(* that holds them holds the session. adoptNode sends the same payload up  *)
(* to MaxTries times; each call is a handler of its own on the node, and   *)
(* the handler of a call that timed out goes on running. Each file the     *)
(* handler writes is a step of its own; os.WriteFile truncates             *)
(* adoption.json before it fills it, so the file is Torn in between.       *)
(*                                                                         *)
(* A certificate or key is named by the call that generated it. The NUT    *)
(* credentials cached by the inventory follow "loaded" and are left out.   *)
(***************************************************************************)
EXTENDS Naturals

CONSTANTS
    Sessions,       \* runs of adoptNode
    Nobody,         \* absence of a session
    Torn,           \* an adoption.json that does not decode
    NoCert,         \* absence of a certificate or key file
    MaxTries,       \* adoptRequestMaxAttempts
    Environments    \* what the surroundings may do, see EnvType

(* An environment: how many more calls may time out; whether a call may    *)
(* time out before its handler has written (late), two sessions may        *)
(* overlap, an operator forgets the node or runs strom-agent reset, the    *)
(* node restarts or the controller's request ends early (stop), systemctl  *)
(* fails (reload), the node's runtime handles USB events (hotplug).        *)
EnvType == [losses : Nat, late : BOOLEAN, concurrent : BOOLEAN,
            forget : BOOLEAN, reset : BOOLEAN, stop : BOOLEAN,
            reload : BOOLEAN, hotplug : BOOLEAN]

ASSUME ConstantsAssumption ==
    /\ Nobody \notin Sessions /\ Torn \notin Sessions /\ Nobody # Torn
    /\ NoCert \notin Sessions \X (1..MaxTries)
    /\ MaxTries \in Nat \ {0}
    /\ Environments \subseteq EnvType

VARIABLES
    ctl,         \* controller: the state of each run of adoptNode
    reg,         \* controller: the registry row of the node
    h,           \* node: the handler of each call
    adoption,    \* node disk: adoption.json
    adoptionFp,  \* node disk: tls_fingerprint in adoption.json
    cert, key,   \* node disk: TLS certificate and private key
    users,       \* node disk: whose NUT user upsd.users holds
    loaded,      \* the NUT user upsd last loaded
    advertised,  \* the adopted= field the Advertiser publishes
    runtime,     \* the agentRuntime: its NUT user while it applies
    env,         \* the environment; only its losses change
    granted      \* history: sessions answered 200 since the last reset

ctlVars == <<ctl, reg>>
tlsVars == <<cert, key>>
nutVars == <<users, loaded>>
vars == <<ctl, reg, h, adoption, adoptionFp, cert, key, users, loaded,
          advertised, runtime, env, granted>>

-----------------------------------------------------------------------------
Tries == 1..MaxTries
Certs == {NoCert} \cup (Sessions \X Tries)
Owners == Sessions \cup {Nobody}
RuntimeIdle == "idle"

Unborn == [pc |-> "none", cut |-> FALSE, fp |-> NoCert]
Running == {"sent", "cert", "certfile", "keyfile", "truncate", "write",
            "users", "reload"}
Unwritten == {"sent", "cert", "certfile", "keyfile", "truncate", "write"}
Answers == {"ok", "conflict", "error"}
HandlerType == [pc : {"none", "gone"} \cup Running \cup Answers,
                cut : BOOLEAN, fp : Certs]

Working == {"calling", "verify", "saveTrust", "setAdopted"}
CtlType == [pc : {"idle", "done", "rejected", "failed"} \cup Working,
            try : Tries, fp : Certs]
RegType == [exists : BOOLEAN, adopted : BOOLEAN, token : Owners, fp : Certs]
NoRow == [exists |-> FALSE, adopted |-> FALSE, token |-> Nobody,
          fp |-> NoCert]

Active(s) == ctl[s].pc \in Working
HandlersIdle == \A s \in Sessions, a \in Tries : h[s][a].pc \notin Running

Init ==
    /\ ctl = [s \in Sessions |-> [pc |-> "idle", try |-> 1, fp |-> NoCert]]
    /\ reg = NoRow
    /\ h = [s \in Sessions |-> [a \in Tries |-> Unborn]]
    /\ adoption = Nobody
    /\ adoptionFp = NoCert
    /\ cert = NoCert /\ key = NoCert
    /\ users = Nobody /\ loaded = Nobody
    /\ advertised = FALSE
    /\ runtime = RuntimeIdle
    /\ env \in Environments
    /\ granted = {}

-----------------------------------------------------------------------------
(* The controller.                                                         *)

(* syncLiveNodes: the row of a node the browser sees is inserted as        *)
(* pending or, when it exists, kept with its adopted flag and its trust.   *)
UpsertDiscoveredNode ==
    /\ ~reg.exists
    /\ reg' = [NoRow EXCEPT !.exists = TRUE]
    /\ UNCHANGED <<ctl, h, adoption, adoptionFp, tlsVars, nutVars,
                   advertised, runtime, env, granted>>

(* handleAdoptNode asks for a known, live node, not for an unadopted one.  *)
StartAdopt(s) ==
    /\ ctl[s].pc = "idle"
    /\ reg.exists
    /\ env.concurrent \/ (HandlersIdle /\ \A t \in Sessions : ~Active(t))
    /\ ctl' = [ctl EXCEPT ![s].pc = "calling"]
    /\ h' = [h EXCEPT ![s][1].pc = "sent"]
    /\ UNCHANGED <<reg, adoption, adoptionFp, tlsVars, nutVars, advertised,
                   runtime, env, granted>>

(* The loop bound of adoptNode.                                            *)
MoreTries(a) == a < MaxTries

(* The call exceeds the client's ten seconds (or a proxy answers 502, 503  *)
(* or 504): the payload is sent again until the attempts are used up. The  *)
(* handler loses its client: its request context is cancelled.             *)
CallTimesOut(s) ==
    LET a == ctl[s].try IN
    /\ ctl[s].pc = "calling"
    /\ env.losses > 0
    /\ env.late \/ h[s][a].pc \notin Unwritten \ {"sent"}
    /\ env' = [env EXCEPT !.losses = @ - 1]
    /\ LET lost == IF \/ h[s][a].pc \in Answers
                      \/ (h[s][a].pc = "sent" /\ ~env.late)
                     THEN [h EXCEPT ![s][a].pc = "gone"]
                     ELSE [h EXCEPT ![s][a].cut = TRUE]
       IN  IF MoreTries(a)
             THEN /\ ctl' = [ctl EXCEPT ![s].try = a + 1]
                  /\ h' = [lost EXCEPT ![s][a + 1].pc = "sent"]
             ELSE /\ ctl' = [ctl EXCEPT ![s].pc = "failed"]
                  /\ h' = lost
    /\ UNCHANGED <<reg, adoption, adoptionFp, tlsVars, nutVars, advertised,
                   runtime, granted>>

(* A reset or refused connection is a net.Error that is no timeout, so     *)
(* shouldRetryAdoptTransportError gives up at once.                        *)
ConnectionLost(s) ==
    /\ ctl[s].pc = "calling"
    /\ h[s][ctl[s].try].pc = "gone"
    /\ ctl' = [ctl EXCEPT ![s].pc = "failed"]
    /\ UNCHANGED <<reg, h, adoption, adoptionFp, tlsVars, nutVars,
                   advertised, runtime, env, granted>>

(* 200 goes on to the verification; 409 is errNodeAlreadyAdopted; 500 is   *)
(* not retried.                                                            *)
AfterAnswer == [ok |-> "verify", conflict |-> "rejected", error |-> "failed"]

ReceiveAnswer(s) ==
    LET a == ctl[s].try IN
    /\ ctl[s].pc = "calling"
    /\ h[s][a].pc \in Answers
    /\ ctl' = [ctl EXCEPT ![s] = [@ EXCEPT !.pc = AfterAnswer[h[s][a].pc],
                                           !.fp = h[s][a].fp]]
    /\ h' = [h EXCEPT ![s][a].pc = "gone"]
    /\ UNCHANGED <<reg, adoption, adoptionFp, tlsVars, nutVars, advertised,
                   runtime, env, granted>>

(* GET /api/health over TLS succeeds when the certificate and key files    *)
(* belong together, the certificate has the pinned fingerprint and the     *)
(* bearer token hashes to the one in adoption.json.                        *)
Verified(s) == cert = key /\ cert = ctl[s].fp /\ adoption = s

VerifyPinnedNodeHealth(s) ==
    /\ ctl[s].pc = "verify"
    /\ ctl' = [ctl EXCEPT ![s].pc = IF Verified(s) THEN "saveTrust"
                                                   ELSE "failed"]
    /\ UNCHANGED <<reg, h, adoption, adoptionFp, tlsVars, nutVars,
                   advertised, runtime, env, granted>>

(* Mutant: the token is stored only after the row is marked adopted.       *)
SaveNodeTrust_Late(s) ==
    /\ ctl[s].pc = "saveTrust"
    /\ reg' = IF reg.exists THEN [reg EXCEPT !.adopted = TRUE] ELSE reg
    /\ ctl' = [ctl EXCEPT ![s].pc = IF reg.exists THEN "setAdopted"
                                                  ELSE "failed"]
    /\ UNCHANGED <<h, adoption, adoptionFp, tlsVars, nutVars, advertised,
                   runtime, env, granted>>

(* Two UPDATE statements, each an ErrNodeNotFound when the row is gone.    *)
SaveNodeTrust(s) ==
    /\ ctl[s].pc = "saveTrust"
    /\ reg' = IF reg.exists
                THEN [reg EXCEPT !.token = s, !.fp = ctl[s].fp] ELSE reg
    /\ ctl' = [ctl EXCEPT ![s].pc = IF reg.exists THEN "setAdopted"
                                                  ELSE "failed"]
    /\ UNCHANGED <<h, adoption, adoptionFp, tlsVars, nutVars, advertised,
                   runtime, env, granted>>

SetNodeAdopted(s) ==
    /\ ctl[s].pc = "setAdopted"
    /\ reg' = IF reg.exists THEN [reg EXCEPT !.adopted = TRUE] ELSE reg
    /\ ctl' = [ctl EXCEPT ![s].pc = IF reg.exists THEN "done" ELSE "failed"]
    /\ UNCHANGED <<h, adoption, adoptionFp, tlsVars, nutVars, advertised,
                   runtime, env, granted>>

(* The browser hangs up, a database write or the vault fails, the node     *)
(* does not answer the verification, or the controller stops.              *)
AbandonAdopt(s) ==
    /\ env.stop
    /\ Active(s)
    /\ ctl' = [ctl EXCEPT ![s].pc = "failed"]
    /\ h' = [h EXCEPT ![s] = [a \in Tries |->
               IF h[s][a].pc \in Answers THEN [h[s][a] EXCEPT !.pc = "gone"]
               ELSE IF h[s][a].pc \in Running
                 THEN [h[s][a] EXCEPT !.cut = TRUE] ELSE h[s][a]]]
    /\ UNCHANGED <<reg, adoption, adoptionFp, tlsVars, nutVars, advertised,
                   runtime, env, granted>>

HandleForgetNode ==
    /\ env.forget
    /\ reg.exists
    /\ reg' = NoRow
    /\ UNCHANGED <<ctl, h, adoption, adoptionFp, tlsVars, nutVars,
                   advertised, runtime, env, granted>>

-----------------------------------------------------------------------------
(* The node: handleAdopt and ApplyAdoption.                                *)

(* The state of a handler that ends; nobody reads the answer of a cut one. *)
Ended(s, a, answer) ==
    [h[s][a] EXCEPT !.pc = IF h[s][a].cut THEN "gone" ELSE answer]

(* A request whose client has gone may never reach the handler.            *)
RequestDropped(s, a) ==
    /\ h[s][a].pc = "sent" /\ h[s][a].cut
    /\ h' = [h EXCEPT ![s][a].pc = "gone"]
    /\ UNCHANGED <<ctlVars, adoption, adoptionFp, tlsVars, nutVars,
                   advertised, runtime, env, granted>>

(* Mutant: any repeated request is refused, the same payload included.     *)
LookupAdoption_NoReplay(s, a) ==
    IF adoption = Nobody THEN [h[s][a] EXCEPT !.pc = "cert"]
    ELSE Ended(s, a, "conflict")

(* Mutant: a second session is accepted like a replay.                     *)
LookupAdoption_Readopt(s, a) ==
    IF adoption = s
      THEN [Ended(s, a, "ok") EXCEPT !.fp = adoptionFp]
      ELSE [h[s][a] EXCEPT !.pc = "cert"]

(* No adoption.json: go on. Same secrets: the replay answers 200 from the  *)
(* file at once. Other secrets: 409. Undecodable: 500.                     *)
LookupAdoption(s, a) ==
    CASE adoption = Nobody -> [h[s][a] EXCEPT !.pc = "cert"]
      [] adoption = s -> [Ended(s, a, "ok") EXCEPT !.fp = adoptionFp]
      [] adoption = Torn -> Ended(s, a, "error")
      [] OTHER -> Ended(s, a, "conflict")

StatAdoption(s, a) ==
    /\ h[s][a].pc = "sent"
    /\ h' = [h EXCEPT ![s][a] = LookupAdoption(s, a)]
    /\ granted' = IF adoption = s THEN granted \cup {s} ELSE granted
    /\ UNCHANGED <<ctlVars, adoption, adoptionFp, tlsVars, nutVars,
                   advertised, runtime, env>>

(* ensureNodeCertificate: a complete pair is reused, otherwise the         *)
(* certificate and then the key are written and the certificate read back. *)
FindCertificate(s, a) ==
    /\ h[s][a].pc = "cert"
    /\ h' = [h EXCEPT ![s][a] =
               IF NoCert \notin {cert, key}
                 THEN [@ EXCEPT !.pc = "truncate", !.fp = cert]
                 ELSE [@ EXCEPT !.pc = "certfile"]]
    /\ UNCHANGED <<ctlVars, adoption, adoptionFp, tlsVars, nutVars,
                   advertised, runtime, env, granted>>

WriteCertificate(s, a) ==
    /\ h[s][a].pc = "certfile"
    /\ cert' = <<s, a>>
    /\ h' = [h EXCEPT ![s][a].pc = "keyfile"]
    /\ UNCHANGED <<ctlVars, adoption, adoptionFp, key, nutVars, advertised,
                   runtime, env, granted>>

WriteKey(s, a) ==
    /\ h[s][a].pc = "keyfile"
    /\ key' = <<s, a>>
    /\ h' = [h EXCEPT ![s][a] = IF cert = NoCert
                                  THEN Ended(s, a, "error")
                                  ELSE [@ EXCEPT !.pc = "truncate",
                                                 !.fp = cert]]
    /\ UNCHANGED <<ctlVars, adoption, adoptionFp, cert, nutVars, advertised,
                   runtime, env, granted>>

TruncateAdoption(s, a) ==
    /\ h[s][a].pc = "truncate"
    /\ adoption' = Torn
    /\ adoptionFp' = NoCert
    /\ h' = [h EXCEPT ![s][a].pc = "write"]
    /\ UNCHANGED <<ctlVars, tlsVars, nutVars, advertised, runtime, env,
                   granted>>

WriteAdoption(s, a) ==
    /\ h[s][a].pc = "write"
    /\ adoption' = s
    /\ adoptionFp' = h[s][a].fp
    /\ h' = [h EXCEPT ![s][a].pc = "users"]
    /\ UNCHANGED <<ctlVars, tlsVars, nutVars, advertised, runtime, env,
                   granted>>

WriteUsers(s, a) ==
    /\ h[s][a].pc = "users"
    /\ users' = s
    /\ h' = [h EXCEPT ![s][a].pc = "reload"]
    /\ UNCHANGED <<ctlVars, adoption, adoptionFp, tlsVars, loaded,
                   advertised, runtime, env, granted>>

(* Mutant: the answer is 200 although upsd was never reloaded.             *)
ReloadNUT_Skipped(s, a) ==
    /\ h[s][a].pc = "reload"
    /\ advertised' = TRUE
    /\ h' = [h EXCEPT ![s][a] = Ended(s, a, "ok")]
    /\ granted' = granted \cup {s}
    /\ UNCHANGED <<ctlVars, adoption, adoptionFp, tlsVars, nutVars, runtime,
                   env>>

(* Reload, then publish adopted=true and answer 200.                       *)
ReloadNUT(s, a) ==
    /\ h[s][a].pc = "reload"
    /\ loaded' = users
    /\ advertised' = TRUE
    /\ h' = [h EXCEPT ![s][a] = Ended(s, a, "ok")]
    /\ granted' = granted \cup {s}
    /\ UNCHANGED <<ctlVars, adoption, adoptionFp, tlsVars, users, runtime,
                   env>>

(* systemctl fails, or is killed with the cancelled request context: 500,  *)
(* although adoption.json stays.                                           *)
ReloadFails(s, a) ==
    /\ h[s][a].pc = "reload"
    /\ env.reload \/ h[s][a].cut
    /\ h' = [h EXCEPT ![s][a] = Ended(s, a, "error")]
    /\ UNCHANGED <<ctlVars, adoption, adoptionFp, tlsVars, nutVars,
                   advertised, runtime, env, granted>>

-----------------------------------------------------------------------------
(* The rest of the node.                                                   *)

(* agentRuntime.apply reads the NUT user first and writes upsd.users last; *)
(* an undecodable adoption.json makes it give up.                          *)
LoadRuntimeNUTUser ==
    /\ env.hotplug
    /\ runtime = RuntimeIdle
    /\ adoption # Torn
    /\ runtime' = adoption
    /\ UNCHANGED <<ctlVars, h, adoption, adoptionFp, tlsVars, nutVars,
                   advertised, env, granted>>

(* Only a changed file makes the runtime reload upsd.                      *)
RuntimeApply ==
    /\ runtime # RuntimeIdle
    /\ users' = runtime
    /\ runtime' = RuntimeIdle
    /\ \/ loaded' = IF users # runtime THEN runtime ELSE loaded
       \/ env.reload /\ loaded' = loaded
    /\ UNCHANGED <<ctlVars, h, adoption, adoptionFp, tlsVars, advertised,
                   env, granted>>

(* The agent restarts, alone or with the whole node (then upsd starts from *)
(* upsd.users). The Advertiser is built with Adopted unset.                *)
NodeRestart ==
    /\ env.stop
    /\ h' = [s \in Sessions |-> [a \in Tries |->
               IF h[s][a].pc \in Running \cup Answers
                 THEN [h[s][a] EXCEPT !.pc = "gone"] ELSE h[s][a]]]
    /\ advertised' = FALSE
    /\ runtime' = RuntimeIdle
    /\ loaded' \in {loaded, users}
    /\ UNCHANGED <<ctlVars, adoption, adoptionFp, tlsVars, users, env,
                   granted>>

(* strom-agent reset, a process of its own: three files are removed.       *)
ResetNodeState ==
    /\ env.reset
    /\ adoption' = Nobody
    /\ adoptionFp' = NoCert
    /\ cert' = NoCert /\ key' = NoCert
    /\ granted' = {}
    /\ UNCHANGED <<ctlVars, h, nutVars, advertised, runtime, env>>

-----------------------------------------------------------------------------
CtlStep(s) ==
    \/ ReceiveAnswer(s) \/ ConnectionLost(s)
    \/ VerifyPinnedNodeHealth(s)
    \/ SaveNodeTrust(s) \/ SetNodeAdopted(s)

HandlerStep(s, a) ==
    \/ RequestDropped(s, a) \/ StatAdoption(s, a)
    \/ FindCertificate(s, a) \/ WriteCertificate(s, a) \/ WriteKey(s, a)
    \/ TruncateAdoption(s, a) \/ WriteAdoption(s, a)
    \/ WriteUsers(s, a) \/ ReloadNUT(s, a) \/ ReloadFails(s, a)

Next ==
    \/ UpsertDiscoveredNode \/ HandleForgetNode
    \/ LoadRuntimeNUTUser \/ RuntimeApply
    \/ NodeRestart \/ ResetNodeState
    \/ \E s \in Sessions :
         \/ StartAdopt(s) \/ CallTimesOut(s) \/ AbandonAdopt(s)
         \/ CtlStep(s)
         \/ \E a \in Tries : HandlerStep(s, a)

Spec == Init /\ [][Next]_vars

(* A goroutine that can run does run; nobody has to press Adopt, and no    *)
(* call has to time out.                                                   *)
Fairness ==
    /\ WF_vars(RuntimeApply)
    /\ \A s \in Sessions : WF_vars(CtlStep(s))
    /\ \A s \in Sessions, a \in Tries : WF_vars(HandlerStep(s, a))

FairSpec == Spec /\ Fairness

-----------------------------------------------------------------------------
(* Every variable holds a value its code type allows, and a handler that   *)
(* works on the TLS files or later has learnt a fingerprint.               *)
TypeOK ==
    /\ ctl \in [Sessions -> CtlType]
    /\ reg \in RegType
    /\ h \in [Sessions -> [Tries -> HandlerType]]
    /\ adoption \in Owners \cup {Torn}
    /\ adoptionFp \in Certs
    /\ {cert, key} \subseteq Certs
    /\ {users, loaded} \subseteq Owners
    /\ advertised \in BOOLEAN
    /\ runtime \in Owners \cup {RuntimeIdle}
    /\ env \in EnvType
    /\ granted \subseteq Sessions

(* Between two resets the node answers 200 to one session only: adoption   *)
(* is one-time, whatever is lost, retried or restarted - as long as no two *)
(* sessions overlap and no reset runs beside one.                          *)
OneOwner ==
    (~env.concurrent /\ ~env.reset) => \A s, t \in granted : s = t

(* A row marked adopted holds the token and the fingerprint with which the *)
(* node can be called: the controller never shows a node as adopted that   *)
(* it cannot talk to. A late handler or another session could still        *)
(* rewrite the node's files, and a forgotten row can come back.            *)
TrustMatchesNode ==
    (/\ reg.adopted
     /\ ~env.late /\ ~env.concurrent /\ ~env.reset /\ ~env.forget) =>
      /\ reg.token \in Sessions
      /\ adoption = reg.token
      /\ reg.fp = cert /\ cert = key

(* A row marked adopted holds the secrets of some session, whatever the    *)
(* node did meanwhile (SaveNodeTrust comes before SetNodeAdopted).         *)
AdoptedHasTrust ==
    (reg.adopted /\ ~env.forget) => reg.token # Nobody /\ reg.fp # NoCert

(* The upsd of a node that was adopted by the first call of its session    *)
(* serves the NUT user the controller was given, from then on.             *)
FirstCallServesController ==
    (/\ reg.adopted
     /\ ~env.hotplug /\ ~env.concurrent /\ ~env.reset /\ ~env.forget) =>
      (ctl[reg.token].try = 1 => loaded = reg.token)

(* As long as fewer calls time out than adoptNode may make, none of them   *)
(* early, the session that started ends with an adopted node: a lost       *)
(* answer is made good by the replay.                                      *)
AdoptionCompletes ==
    \A s \in Sessions :
      (/\ ctl[s].pc = "calling" /\ env.losses < MaxTries
       /\ ~env.late /\ ~env.forget /\ ~env.stop /\ ~env.reload
       /\ ~env.concurrent /\ ~env.reset)
        ~> \E t \in Sessions : ctl[t].pc = "done"

(* The handshake implements the contract: the owner is the session in      *)
(* adoption.json, the trusted one the session in the registry.             *)
Contract == INSTANCE AdoptionContract
              WITH owner <- IF adoption \in Sessions THEN adoption
                                                     ELSE Nobody,
                   trusted <- reg.token

(* Files, retries, restarts and a forgetful operator never make a step the *)
(* contract does not allow.                                                *)
ImplementsContract == Contract!Spec
=============================================================================
