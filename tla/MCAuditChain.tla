---------------------------- MODULE MCAuditChain ----------------------------
(* AuditChain for TLC. Each behaviour plays one scene: "damage", where rows  *)
(* are lost or altered around one keeper, or "crowd", where nothing is lost, *)
(* all events say the same, and two keepers work at the same time.           *)
EXTENDS AuditChain

CONSTANTS k1, k2

VARIABLE scene

mcVars == <<vars, scene>>

Plays(k) == scene = "crowd" \/ k = k1

Plain(S) == \A e \in S : e.data = "a"

SceneBound ==
    scene = "crowd" => damage = 0 /\ Plain(log) /\ \A w \in Writers : Plain(draft[w])

MCInit == Init /\ scene \in {"damage", "crowd"} /\ SceneBound

MCNext ==
    /\ UNCHANGED scene
    /\ \/ \E w \in Writers : Write(w)
       \/ \E k \in Keepers : Plays(k) /\ Keep(k)
       \/ \E e \in log : Lose(e) \/ \E d \in Data : Alter(e, d)
    /\ SceneBound'

\* Fairness of AuditChain, for the keepers of the scene.
MCFairness ==
    /\ \A w \in Writers : WF_mcVars(UNCHANGED scene /\ (Commit(w) \/ Rollback(w)))
    /\ \A k \in Keepers :
          /\ SF_mcVars(UNCHANGED scene /\ Plays(k) /\ RefreshRead(k))
          /\ SF_mcVars(UNCHANGED scene /\ Plays(k) /\ RefreshLock(k))
          /\ WF_mcVars(UNCHANGED scene /\ Plays(k) /\ RefreshWrite(k))
          /\ WF_mcVars(UNCHANGED scene /\ Plays(k) /\ RefreshEnd(k))
          /\ WF_mcVars(UNCHANGED scene /\ Plays(k) /\ ExportWrite(k))

MCSpec == MCInit /\ [][MCNext]_mcVars /\ MCFairness
=============================================================================
