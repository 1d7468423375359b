---- MODULE AnalysisBroker ----
(***************************************************************************)
(* Analyses that an extension asks for (runtime/decisions/broker.mjs,       *)
(* behind analyze of runtime/daemon/extension-api.mjs), over the catalogue  *)
(* that other processes write meanwhile and the project model.              *)
(*                                                                         *)
(* An analysis reads the installed version and the approval from disk six   *)
(* times: twice before the provider is asked, once after its answer, once   *)
(* after the model has taken the interpretations, and by the API around it. *)
(* A read and what the program does with it are two steps, for the file may *)
(* change between them; what follows a read up to the next one is one step. *)
(* The evidence stands for all that the fingerprint of a request covers.    *)
(***************************************************************************)
EXTENDS ExtensionRegistry

CONSTANTS
    Analyses,    \* requests of the extension
    Home,        \* the project whose daemon runs them
    MaxRevision  \* bounds the changes of the model

ASSUME BrokerAssumption == Home \in Projects /\ MaxRevision \in Nat

VARIABLES
    revision, \* the model's
    evidence, \* the version of the evidence of the selected entities
    stored,   \* interpretations in the model: of which analysis, on which evidence
    at,       \* where each analysis is
    loaded,   \* analyses that have read the version and not yet the approval
    want,     \* what it was asked with: digest, approval, and what it has seen of the model
    held      \* after which steps its version and its approval were still in force

brokerVars == <<revision, evidence, stored, at, loaded, want, held>>

vars == <<registryVars, brokerVars>>

Stages == <<"new", "loading", "checked", "authorized", "asked", "answered",
            "confirmed", "stored", "affirmed", "returned", "complete">>

Wants == [digest : Digests \union {None}, grant : GrantsType,
          revision : 0..MaxRevision, evidence : 0..MaxRevision]

TypeOK ==
    /\ RegistryTypeOK
    /\ revision \in 0..MaxRevision /\ evidence \in 0..MaxRevision
    /\ stored \in SUBSET [analysis : Analyses, evidence : 0..MaxRevision, current : BOOLEAN]
    /\ at \in [Analyses -> {Stages[i] : i \in DOMAIN Stages} \union {"unavailable"}]
    /\ loaded \subseteq Analyses
    /\ want \in [Analyses -> Wants]
    /\ held \in [Analyses -> SUBSET {"answer", "admission"}]

NoWant == [digest |-> None, grant |-> NoGrant, revision |-> 0, evidence |-> 0]

Init ==
    /\ RegistryInit
    /\ revision = 0 /\ evidence = 0 /\ stored = {}
    /\ at = [a \in Analyses |-> "new"] /\ loaded = {}
    /\ want = [a \in Analyses |-> NoWant]
    /\ held = [a \in Analyses |-> {}]

Move(a, place) == at' = [at EXCEPT ![a] = place]

\* The version and the approval an analysis was asked with are those on disk.
InForce(a) == installed = want[a].digest /\ grants[Home] = want[a].grant

Held(a, milestone) ==
    held' = [held EXCEPT ![a] = IF InForce(a) THEN @ \union {milestone} ELSE @]
----
(***************************************************************************)
(* The project model                                                        *)
(***************************************************************************)
\* A commit that leaves the selected entities alone, or one that changes their evidence:
\* interpretations on it are stale.
ModelChanges ==
    /\ revision < MaxRevision
    /\ revision' = revision + 1
    /\ \/ UNCHANGED <<evidence, stored>>
       \/ /\ evidence' = evidence + 1
          /\ stored' = {[s EXCEPT !.current = FALSE] : s \in stored}
    /\ UNCHANGED <<registryVars, at, want, held, loaded>>
----
(***************************************************************************)
(* analyze and runAnalysis                                                  *)
(***************************************************************************)
\* requireGrant: an approval of the version the extension runs, at the revision it has seen.
Ask(a) ==
    /\ at[a] = "new"
    /\ grants[Home] # NoGrant
    /\ want' = [want EXCEPT ![a] = [digest |-> grants[Home].digest, grant |-> grants[Home],
                                    revision |-> revision, evidence |-> evidence]]
    /\ Move(a, "loading")
    /\ UNCHANGED <<registryVars, revision, evidence, stored, held, loaded>>

\* Where the approval is read, and where an approval that is the same leads.
After == [loading |-> "checked", checked |-> "authorized", answered |-> "confirmed",
          stored |-> "affirmed", returned |-> "complete"]

\* getAssets, whose version must be the one asked for; the API's last check goes without.
ReadAssets(a) ==
    /\ at[a] \in DOMAIN After /\ at[a] # "returned" /\ a \notin loaded
    /\ IF installed = want[a].digest
       THEN loaded' = loaded \union {a} /\ UNCHANGED at
       ELSE Move(a, "unavailable") /\ UNCHANGED loaded
    /\ UNCHANGED <<registryVars, revision, evidence, stored, want, held>>

\* getGrant, whose approval must be the very one the analysis was asked with.
ReadGrant(a) ==
    /\ at[a] \in DOMAIN After /\ (at[a] = "returned" \/ a \in loaded)
    /\ Move(a, IF grants[Home] = want[a].grant THEN After[at[a]] ELSE "unavailable")
    /\ loaded' = loaded \ {a}
    /\ UNCHANGED <<registryVars, revision, evidence, stored, want, held>>

\* The model must still be at the revision the extension has seen.
Evaluate(a) ==
    /\ at[a] = "authorized"
    /\ IF revision = want[a].revision
       THEN /\ want' = [want EXCEPT ![a].evidence = evidence]
            /\ Move(a, "asked")
       ELSE Move(a, "unavailable") /\ UNCHANGED want
    /\ UNCHANGED <<registryVars, revision, evidence, stored, held, loaded>>

\* The decision service has answered; another status ends the analysis.
Answer(a) ==
    /\ at[a] = "asked"
    /\ Move(a, "answered") \/ Move(a, "unavailable")
    /\ Held(a, "answer")
    /\ UNCHANGED <<registryVars, revision, evidence, stored, want, loaded>>

\* The answers are stored whatever the model has become.
MutantAdmit(a) ==
    /\ at[a] = "confirmed" /\ revision < MaxRevision
    /\ revision' = revision + 1
    /\ stored' = stored \union {[analysis |-> a, evidence |-> want[a].evidence,
                                  current |-> want[a].evidence = evidence]}
    /\ want' = [want EXCEPT ![a].revision = revision']
    /\ Move(a, "stored")
    /\ Held(a, "admission")
    /\ UNCHANGED <<registryVars, evidence, loaded>>

\* observeInterpretations, at the same revision and fingerprint; the model may not take them.
Admit(a) ==
    /\ at[a] = "confirmed"
    /\ IF revision = want[a].revision
       THEN \/ /\ revision < MaxRevision
               /\ revision' = revision + 1
               /\ stored' = stored \union {[analysis |-> a, evidence |-> want[a].evidence, current |-> TRUE]}
               /\ want' = [want EXCEPT ![a].revision = revision']
               /\ Move(a, "stored")
               /\ Held(a, "admission")
            \/ Move(a, "unavailable") /\ UNCHANGED <<revision, stored, want, held>>
       ELSE Move(a, "unavailable") /\ UNCHANGED <<revision, stored, want, held>>
    /\ UNCHANGED <<registryVars, evidence, loaded>>

\* Only what the model holds, at the revision of its admission, is returned.
Confirm(a) ==
    /\ at[a] = "affirmed"
    /\ Move(a, IF revision = want[a].revision THEN "returned" ELSE "unavailable")
    /\ UNCHANGED <<registryVars, revision, evidence, stored, want, held, loaded>>

\* The request was aborted.
Abandon(a) ==
    /\ at[a] \notin {"new", "complete", "unavailable"}
    /\ Move(a, "unavailable")
    /\ loaded' = loaded \ {a}
    /\ UNCHANGED <<registryVars, revision, evidence, stored, want, held>>

Next ==
    \/ RegistryStep /\ UNCHANGED brokerVars
    \/ ModelChanges
    \/ \E a \in Analyses :
          \/ Ask(a) \/ ReadAssets(a) \/ ReadGrant(a) \/ Evaluate(a) \/ Answer(a)
          \/ Admit(a) \/ Confirm(a) \/ Abandon(a)

Spec == Init /\ [][Next]_vars
----
(***************************************************************************)
(* Properties                                                               *)
(***************************************************************************)
\* Interpretations enter the model only on the evidence they were asked about, and only when
\* the version and the approval they were asked with were still in force once the provider had
\* answered: a revocation written before the answer is honoured, also when the extension was
\* approved again meanwhile.
AdmissionIsCurrent ==
    \A s \in stored' \ stored :
       /\ ~\E t \in stored : t.analysis = s.analysis
       => s.evidence = evidence /\ "answer" \in held[s.analysis]

\* A complete analysis was still approved when the model took its interpretations, and the
\* interpretations whose identifiers it returns are in the model; they were current when the
\* broker returned.
CompleteIsApprovedAndStored ==
    \A a \in Analyses :
       /\ at[a] = "complete" =>
             "admission" \in held[a] /\ \E s \in stored : s.analysis = a
       /\ at'[a] = "returned" /\ at[a] # "returned" =>
             \E s \in stored : s.analysis = a /\ s.current /\ s.evidence = evidence

\* What an analysis leaves in the model and what it returns rests on evidence and on an
\* authority that hold at that moment, whatever changed between its awaits.
AnalysisHolds == [][AdmissionIsCurrent /\ CompleteIsApprovedAndStored]_vars
====
