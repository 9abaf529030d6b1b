------------------------- MODULE LightHandlerProofs -------------------------
(***************************************************************************)
(* Proofs about LightHandler.  Every operation leads from a good state to  *)
(* good states and announces what it changed (Keeps); operations that      *)
(* commit twice are chains of such steps, and Keeps is transitive.         *)
(***************************************************************************)
EXTENDS LightHandler, DivisionFacts, TLAPS

\* The invariant of the handler's own state.
Good(s) ==
  /\ s \in HandlerStates
  /\ ~s.global_scene => s.global_scene_state # None

\* A step that keeps it, and moves the versions of all clusters when it
\* changes what is reported.
Keeps(s, t) ==
  /\ Good(t)
  /\ s.due \subseteq t.due
  /\ Reported(t) # Reported(s) => t.due = Clusters

LEMMA ZeroTime == 0 \in 0..Forever
  BY HandlerAssumption

LEMMA KeepsNothing == ASSUME NEW s, Good(s) PROVE Keeps(s, s)
  BY DEF Keeps

LEMMA KeepsChains ==
  ASSUME NEW s, NEW t, NEW u, Keeps(s, t), Keeps(t, u) PROVE Keeps(s, u)
<1>1. u.due \in SUBSET Clusters
  BY DEF Keeps, Good, HandlerStates
<1> QED BY <1>1 DEF Keeps

LEMMA ReportedState ==
  ASSUME NEW s, Good(s)
  PROVE  /\ s.target \in LightStates
         /\ Reported(s) \in LightStates \cup {None}
         /\ (Reported(s) = None) <=> (s.health # "up")
  BY AbsenceAssumption DEF Good, HandlerStates, Reported

\* A step that leaves target, health and versions alone only has to be good.
LEMMA KeepsReport ==
  ASSUME NEW s, NEW t, Good(t),
         t.target = s.target, t.health = s.health, s.due \subseteq t.due
  PROVE  Keeps(s, t)
  BY DEF Keeps, Reported

-----------------------------------------------------------------------------
(* The pieces the handlers share.                                          *)

\* A commit, and any other move of Runtime that is counted.
LEMMA MoveKeeps ==
  ASSUME NEW s, Good(s), NEW target \in LightStates, NEW health \in {"up", "down", "refusing"}
  PROVE  Keeps(s, [s EXCEPT !.target = target, !.health = health, !.due = Clusters])
<1> DEFINE t == [s EXCEPT !.target = target, !.health = health, !.due = Clusters]
<1>1. /\ t \in HandlerStates /\ t.due = Clusters
      /\ t.global_scene = s.global_scene /\ t.global_scene_state = s.global_scene_state
  BY ZenonT(60) DEF Good, HandlerStates
<1>2. s.due \subseteq Clusters
  BY ZenonT(60) DEF Good, HandlerStates
<1> QED BY <1>1, <1>2 DEF Keeps, Good

LEMMA CommitKeeps ==
  ASSUME NEW s, Good(s), NEW target \in LightStates, NEW t \in Commit(s, target)
  PROVE  Keeps(s, t)
<1>1. CASE s.health = "refusing"
  BY <1>1, KeepsNothing DEF Commit
<1>2. CASE s.health # "refusing"
  <2>1. PICK health \in {"up", "down"} :
          t = [s EXCEPT !.target = target, !.health = health, !.due = Clusters]
    BY <1>2 DEF Commit
  <2> QED BY <2>1, MoveKeeps
<1> QED BY <1>1, <1>2

LEMMA ChangedFields ==
  ASSUME NEW s, Good(s)
  PROVE  /\ Changed(s).due = s.due /\ Changed(s).target = s.target
         /\ Changed(s).health = s.health /\ Changed(s).off_wait = s.off_wait
BY DEF Good, HandlerStates, Changed

LEMMA ChangedKeeps == ASSUME NEW s, Good(s) PROVE Keeps(s, Changed(s))
<1>1. /\ Changed(s) \in HandlerStates
      /\ Changed(s).global_scene = s.global_scene
      /\ Changed(s).global_scene_state = s.global_scene_state
      /\ Changed(s).target = s.target /\ Changed(s).health = s.health /\ Changed(s).due = s.due
  BY DEF Good, HandlerStates, Changed
<1> QED BY <1>1, KeepsReport DEF Good

LEMMA VersionedKeeps ==
  ASSUME NEW s, Good(s), NEW cluster \in Clusters PROVE Keeps(s, Versioned(s, cluster))
<1> DEFINE t == Versioned(s, cluster)
<1>1. /\ t \in HandlerStates /\ s.due \subseteq t.due
      /\ t.global_scene = s.global_scene /\ t.global_scene_state = s.global_scene_state
      /\ t.target = s.target /\ t.health = s.health
  BY DEF Good, HandlerStates, Versioned, Clusters
<1> QED BY <1>1, KeepsReport DEF Good

\* Timers may take any value in their range, and a global scene flag may rise.
LEMMA TimersKeep ==
  ASSUME NEW s, Good(s), NEW on_time \in 0..Forever, NEW off_wait \in 0..Forever,
         NEW timed \in BOOLEAN, NEW flag \in BOOLEAN, s.global_scene => flag
  PROVE  Keeps(s, [s EXCEPT !.on_time = on_time, !.off_wait = off_wait, !.timed = timed,
                            !.global_scene = flag])
<1> DEFINE t == [s EXCEPT !.on_time = on_time, !.off_wait = off_wait, !.timed = timed,
                          !.global_scene = flag]
<1>1. /\ t \in HandlerStates /\ t.due = s.due
      /\ t.global_scene = flag /\ t.global_scene_state = s.global_scene_state
      /\ t.target = s.target /\ t.health = s.health
  BY ZenonT(60) DEF Good, HandlerStates
<1> QED BY <1>1, KeepsReport DEF Good

LEMMA TimersWritten ==
  ASSUME NEW s, Good(s), NEW on_time \in 0..Forever, NEW off_wait \in 0..Forever,
         NEW timed \in BOOLEAN
  PROVE  /\ Keeps(s, [s EXCEPT !.on_time = on_time, !.off_wait = off_wait, !.timed = timed])
         /\ Keeps(s, [s EXCEPT !.off_wait = off_wait, !.timed = timed])
         /\ Keeps(s, [s EXCEPT !.on_time = on_time, !.off_wait = off_wait])
         /\ Keeps(s, [s EXCEPT !.timed = timed])
<1> DEFINE Written(on, wait, flag) ==
      [s EXCEPT !.on_time = on, !.off_wait = wait, !.timed = flag,
                !.global_scene = s.global_scene]
<1>1. Good(s) /\ s.on_time \in 0..Forever /\ s.off_wait \in 0..Forever
      /\ s.timed \in BOOLEAN /\ s.global_scene \in BOOLEAN
  BY DEF Good, HandlerStates
<1>2. /\ [s EXCEPT !.on_time = on_time, !.off_wait = off_wait, !.timed = timed]
           = Written(on_time, off_wait, timed)
      /\ [s EXCEPT !.off_wait = off_wait, !.timed = timed]
           = Written(s.on_time, off_wait, timed)
      /\ [s EXCEPT !.on_time = on_time, !.off_wait = off_wait]
           = Written(on_time, off_wait, s.timed)
      /\ [s EXCEPT !.timed = timed] = Written(s.on_time, s.off_wait, timed)
  BY DEF Good, HandlerStates
<1>3. ASSUME NEW on \in 0..Forever, NEW wait \in 0..Forever, NEW flag \in BOOLEAN
      PROVE  Keeps(s, Written(on, wait, flag))
  BY <1>1, TimersKeep
<1> HIDE DEF Written
<1> QED BY <1>1, <1>2, <1>3

LEMMA CoupledKeeps ==
  ASSUME NEW s, Good(s), NEW flag \in BOOLEAN
  PROVE  Keeps(s, [s EXCEPT !.coupled_temperature = flag])
<1> DEFINE t == [s EXCEPT !.coupled_temperature = flag]
<1>1. /\ t \in HandlerStates /\ t.due = s.due
      /\ t.global_scene = s.global_scene /\ t.global_scene_state = s.global_scene_state
      /\ t.target = s.target /\ t.health = s.health
  BY ZenonT(60) DEF Good, HandlerStates
<1> QED BY <1>1, KeepsReport DEF Good

LEMMA SetPowerKeeps ==
  ASSUME NEW s, Good(s), NEW on \in BOOLEAN, NEW t \in SetPower(s, on) PROVE Keeps(s, t)
<1>1. [s.target EXCEPT !.on = on] \in LightStates
  BY ReportedState DEF LightStates
<1>2. Keeps(s, Versioned(s, "OnOff"))
  BY VersionedKeeps DEF Clusters
<1>3. Keeps(Versioned(s, "OnOff"), t)
  BY <1>1, <1>2, CommitKeeps DEF Keeps, SetPower
<1> QED BY <1>2, <1>3, KeepsChains

\* An OnLevel is a commit before that of the On.
LEMMA OnLevelKeeps ==
  ASSUME NEW s, Good(s), s.on_level # None,
         NEW u \in Commit(s, [s.target EXCEPT !.level = s.on_level, !.on = s.on_level > 1]),
         NEW t \in (IF u.health = "up" THEN SetPower(u, TRUE) ELSE {u})
  PROVE  Keeps(s, t)
<1> DEFINE flag == s.on_level > 1
<1>1. s.target \in LightStates /\ s.on_level \in Levels /\ flag \in BOOLEAN
  BY DEF Good, HandlerStates
<1> HIDE DEF flag
<1>2. [s.target EXCEPT !.level = s.on_level, !.on = flag] \in LightStates
  BY <1>1 DEF LightStates
<1>3. Keeps(s, u)
  BY <1>2, CommitKeeps DEF flag
<1>4. Keeps(u, t)
  BY <1>3, SetPowerKeeps, KeepsNothing DEF Keeps
<1> QED BY <1>3, <1>4, KeepsChains

LEMMA PowerOnKeeps == ASSUME NEW s0, Good(s0), NEW t \in PowerOn(s0) PROVE Keeps(s0, t)
<1> DEFINE s == [Changed(s0) EXCEPT
                   !.global_scene = TRUE,
                   !.off_wait = IF s0.on_time = 0 THEN 0 ELSE @,
                   !.timed = Limited(s0.on_time) /\ s0.off_wait # Forever]
           level == [s.target EXCEPT !.level = s.on_level, !.on = s.on_level > 1]
<1>1. Keeps(s0, s)
  <2> DEFINE c == Changed(s0)
             wait == IF s0.on_time = 0 THEN 0 ELSE c.off_wait
             timed == Limited(s0.on_time) /\ s0.off_wait # Forever
             v == [c EXCEPT !.global_scene = TRUE, !.off_wait = wait, !.timed = timed]
  <2>1. s = v
    OBVIOUS
  <2>2. /\ Good(c) /\ c.due = s0.due /\ c.target = s0.target /\ c.health = s0.health
        /\ c.off_wait = s0.off_wait
    BY ChangedKeeps, ChangedFields DEF Keeps
  <2> HIDE DEF c
  <2>3. wait \in 0..Forever /\ timed \in BOOLEAN
    <3>1. c.off_wait \in 0..Forever
      BY <2>2 DEF Good, HandlerStates
    <3> QED BY <3>1, ZeroTime
  <2> HIDE DEF wait, timed, s
  <2>4. /\ v \in HandlerStates /\ v.due = c.due /\ v.global_scene = TRUE
        /\ v.target = c.target /\ v.health = c.health
    BY <2>2, <2>3, ZenonT(120) DEF Good, HandlerStates
  <2> HIDE DEF v
  <2>5. /\ s \in HandlerStates /\ s.due = s0.due /\ s.global_scene = TRUE
        /\ s.target = s0.target /\ s.health = s0.health
    BY <2>1, <2>2, <2>4
  <2> QED BY <2>5, KeepsReport DEF Good
<1>2. t \in IF s.on_level = None \/ IsOn(s) THEN SetPower(s, TRUE)
             ELSE UNION {IF u.health = "up" THEN SetPower(u, TRUE) ELSE {u} :
                           u \in Commit(s, level)}
  BY DEF PowerOn
<1> HIDE DEF s
<1>3. Good(s)
  BY <1>1 DEF Keeps
<1>4. Keeps(s, t)
  <2>1. CASE s.on_level = None \/ IsOn(s)
    BY <1>2, <1>3, <2>1, SetPowerKeeps
  <2>2. CASE ~(s.on_level = None \/ IsOn(s))
    <3>1. PICK u \in Commit(s, level) :
            t \in (IF u.health = "up" THEN SetPower(u, TRUE) ELSE {u})
      BY <1>2, <2>2
    <3> QED BY <1>3, <2>2, <3>1, OnLevelKeeps
  <2> QED BY <2>1, <2>2
<1> QED BY <1>1, <1>4, KeepsChains

\* What every Off does to the timers.
LEMMA TimersOffKeeps == ASSUME NEW s, Good(s) PROVE Keeps(s, TimersOff(s))
<1> DEFINE flag == Limited(s.off_wait)
<1>1. flag \in BOOLEAN /\ 0 \in 0..Forever
  BY HandlerAssumption DEF Limited
<1>2. TimersOff(s) = [s EXCEPT !.coupled_temperature = FALSE, !.on_time = 0, !.timed = flag]
  BY DEF TimersOff
<1> HIDE DEF flag
<1> DEFINE u == [s EXCEPT !.coupled_temperature = FALSE, !.on_time = 0, !.timed = flag]
<1>3. /\ u \in HandlerStates /\ u.due = s.due
      /\ u.global_scene = s.global_scene /\ u.global_scene_state = s.global_scene_state
      /\ u.target = s.target /\ u.health = s.health
  BY <1>1, ZenonT(120) DEF Good, HandlerStates
<1> QED BY <1>2, <1>3, KeepsReport DEF Good

LEMMA PowerOffKeeps == ASSUME NEW s, Good(s), NEW t \in PowerOff(s) PROVE Keeps(s, t)
<1> DEFINE c == Changed(s)
           u == TimersOff(c)
<1>1. Keeps(s, c)
  BY ChangedKeeps
<1>2. Keeps(c, u)
  BY <1>1, TimersOffKeeps DEF Keeps
<1>3. Keeps(u, t)
  BY <1>2, SetPowerKeeps DEF Keeps, PowerOff
<1> QED BY <1>1, <1>2, <1>3, KeepsChains

LEMMA PowerKeeps ==
  ASSUME NEW s, Good(s), NEW on \in BOOLEAN, NEW t \in Power(s, on) PROVE Keeps(s, t)
  BY PowerOnKeeps, PowerOffKeeps DEF Power

-----------------------------------------------------------------------------
(* The operations.                                                         *)

LEMMA ToggleKeeps == ASSUME NEW s, Good(s), NEW t \in Toggle(s) PROVE Keeps(s, t)
<1>1. (~s.target.on) \in BOOLEAN
  OBVIOUS
<1> QED BY <1>1, KeepsNothing, PowerKeeps DEF Toggle

LEMMA LeftInRange ==
  ASSUME NEW time \in 0..Forever, NEW elapsed \in Elapsed
  PROVE  Left(time, elapsed) \in 0..Forever
  BY HandlerAssumption DEF Left

LEMMA TickedKeeps ==
  ASSUME NEW s, Good(s), NEW elapsed \in Elapsed, NEW t \in Ticked(s, elapsed)
  PROVE  Keeps(s, t)
<1>1. s.on_time \in 0..Forever /\ s.off_wait \in 0..Forever /\ 0 \in 0..Forever
  BY HandlerAssumption DEF Good, HandlerStates
<1>2. CASE ~s.target.on
  <2> DEFINE u == [s EXCEPT !.on_time = 0, !.off_wait = Left(@, elapsed),
                            !.timed = s.off_wait > elapsed]
  <2>1. t = Versioned(u, "OnOff")
    BY <1>2 DEF Ticked, GuardTicked
  <2>2. Left(s.off_wait, elapsed) \in 0..Forever /\ (s.off_wait > elapsed) \in BOOLEAN
    BY <1>1, LeftInRange
  <2>3. Keeps(s, u)
    BY <1>1, <2>2, TimersWritten
  <2>4. Keeps(u, t)
    BY <2>1, <2>3, VersionedKeeps DEF Keeps, Clusters
  <2> QED BY <2>3, <2>4, KeepsChains
<1>3. CASE s.target.on /\ s.on_time > elapsed
  <2> DEFINE u == [s EXCEPT !.on_time = Left(@, elapsed)]
  <2>1. t = Versioned(u, "OnOff")
    BY <1>3 DEF Ticked, LitTicked
  <2>2. /\ u \in HandlerStates /\ u.due = s.due
        /\ u.global_scene = s.global_scene /\ u.global_scene_state = s.global_scene_state
        /\ u.target = s.target /\ u.health = s.health
    BY <1>1, LeftInRange DEF Good, HandlerStates
  <2>3. Keeps(s, u)
    BY <2>2, KeepsReport DEF Good
  <2>4. Keeps(u, t)
    BY <2>1, <2>3, VersionedKeeps DEF Keeps, Clusters
  <2> QED BY <2>3, <2>4, KeepsChains
<1>4. CASE s.target.on /\ ~(s.on_time > elapsed)
  <2> DEFINE u == [s EXCEPT !.on_time = 0]
  <2>1. PICK v \in PowerOff(u) :
          t = [v EXCEPT !.off_wait = 0, !.timed = FALSE, !.due = @ \cup {"OnOff"}]
    BY <1>4 DEF Ticked, LitTicked
  <2>2. /\ u \in HandlerStates /\ u.due = s.due
        /\ u.global_scene = s.global_scene /\ u.global_scene_state = s.global_scene_state
        /\ u.target = s.target /\ u.health = s.health
    BY <1>1 DEF Good, HandlerStates
  <2>3. Keeps(s, u)
    BY <2>2, KeepsReport DEF Good
  <2>4. Keeps(u, v)
    BY <2>1, <2>3, PowerOffKeeps DEF Keeps
  <2>5. Keeps(v, t)
    <3>1. /\ t \in HandlerStates /\ v.due \subseteq t.due
          /\ t.global_scene = v.global_scene /\ t.global_scene_state = v.global_scene_state
          /\ t.target = v.target /\ t.health = v.health
      BY <1>1, <2>1, <2>4 DEF Keeps, Good, HandlerStates, Clusters
    <3> QED BY <3>1, <2>4, KeepsReport DEF Good, Keeps
  <2> QED BY <2>3, <2>4, <2>5, KeepsChains
<1> QED BY <1>2, <1>3, <1>4

LEMMA TimedOnKeeps ==
  ASSUME NEW s, Good(s), NEW accept_only_on \in BOOLEAN,
         NEW on_time \in OnTimes, NEW off_wait \in OffWaits,
         NEW t \in TimedOn(s, accept_only_on, on_time, off_wait)
  PROVE  Keeps(s, t)
<1> DEFINE guarded == s.off_wait > 0 /\ ~s.target.on
           wait == IF s.off_wait < off_wait THEN s.off_wait ELSE off_wait
           longer == [s EXCEPT !.on_time = IF @ > on_time THEN @ ELSE on_time,
                               !.off_wait = off_wait]
           shorter == [s EXCEPT !.off_wait = wait, !.timed = Limited(wait)]
<1>1. on_time \in 0..Forever /\ off_wait \in 0..Forever
  BY HandlerAssumption
<1>2. CASE Reported(s) = None \/ (accept_only_on /\ ~s.target.on)
  BY <1>2, KeepsNothing DEF TimedOn
<1>3. CASE ~(Reported(s) = None \/ (accept_only_on /\ ~s.target.on)) /\ guarded
  <2>1. t = Versioned(shorter, "OnOff")
    BY <1>3 DEF TimedOn
  <2>2. wait \in 0..Forever /\ Limited(wait) \in BOOLEAN
    BY <1>1 DEF Good, HandlerStates, Limited
  <2>3. Keeps(s, shorter)
    BY <1>1, <2>2, TimersWritten
  <2>4. Keeps(shorter, t)
    BY <2>1, <2>3, VersionedKeeps DEF Keeps, Clusters
  <2> QED BY <2>3, <2>4, KeepsChains
<1>4. CASE ~(Reported(s) = None \/ (accept_only_on /\ ~s.target.on)) /\ ~guarded
  <2>1. PICK u \in PowerOn(longer) :
          t = [u EXCEPT !.timed = u.on_time # Forever /\ u.off_wait # Forever]
    BY <1>4 DEF TimedOn
  <2>2. (IF s.on_time > on_time THEN s.on_time ELSE on_time) \in 0..Forever
    BY <1>1 DEF Good, HandlerStates
  <2>3. Keeps(s, longer)
    BY <1>1, <2>2, TimersWritten
  <2> HIDE DEF longer
  <2>4. Keeps(longer, u)
    <3>1. Good(longer)
      BY <2>3 DEF Keeps
    <3> QED BY <2>1, <3>1, PowerOnKeeps
  <2>5. Keeps(u, t)
    <3>1. (u.on_time # Forever /\ u.off_wait # Forever) \in BOOLEAN /\ Good(u)
      BY <2>4 DEF Keeps
    <3>2. u.on_time \in 0..Forever /\ u.off_wait \in 0..Forever
      BY <3>1 DEF Good, HandlerStates
    <3> QED BY <2>1, <3>1, <3>2, TimersWritten
  <2> QED BY <2>3, <2>4, <2>5, KeepsChains
<1> QED BY <1>2, <1>3, <1>4

LEMMA OffWithEffectKeeps ==
  ASSUME NEW s, Good(s), NEW t \in OffWithEffect(s) PROVE Keeps(s, t)
<1>1. PICK u \in SaveGlobalScene(s) : t \in PowerOff(u)
  BY DEF OffWithEffect
<1>2. Keeps(s, u)
  <2>1. CASE ~s.global_scene
    BY <1>1, <2>1, KeepsNothing DEF SaveGlobalScene
  <2>2. CASE s.global_scene
    <3>1. /\ Reported(s) # None
          /\ u = [s EXCEPT !.global_scene_state = Reported(s), !.global_scene = FALSE]
      BY <1>1, <2>2 DEF SaveGlobalScene
    <3>2. Reported(s) \in LightStates
      BY <3>1, ReportedState
    <3>3. /\ u \in HandlerStates /\ u.due = s.due /\ u.global_scene_state # None
          /\ u.target = s.target /\ u.health = s.health
      BY <3>1, <3>2 DEF Good, HandlerStates
    <3> QED BY <3>3, KeepsReport DEF Good
  <2> QED BY <2>1, <2>2
<1>3. Keeps(u, t)
  BY <1>1, <1>2, PowerOffKeeps DEF Keeps
<1> QED BY <1>2, <1>3, KeepsChains

LEMMA RecallGlobalSceneKeeps ==
  ASSUME NEW s, Good(s), NEW t \in RecallGlobalScene(s) PROVE Keeps(s, t)
<1>1. CASE s.global_scene \/ s.global_scene_state = None
  BY <1>1, KeepsNothing DEF RecallGlobalScene
<1>2. CASE ~(s.global_scene \/ s.global_scene_state = None)
  <2> DEFINE c == Changed(s)
  <2>1. Keeps(s, c)
    BY ChangedKeeps
  <2>2. PICK u \in Commit(c, s.global_scene_state) :
          t = IF u.health # "up" THEN u
              ELSE Versioned([u EXCEPT !.global_scene = TRUE,
                                       !.off_wait = IF u.on_time = 0 THEN 0 ELSE @], "OnOff")
    BY <1>2 DEF RecallGlobalScene
  <2> HIDE DEF c
  <2>3. s.global_scene_state \in LightStates
    BY <1>2 DEF Good, HandlerStates
  <2>4. Keeps(c, u)
    BY <2>1, <2>2, <2>3, CommitKeeps DEF Keeps
  <2>5. Keeps(u, t)
    <3> DEFINE wait == IF u.on_time = 0 THEN 0 ELSE u.off_wait
               v == [u EXCEPT !.global_scene = TRUE, !.off_wait = wait]
    <3>1. Good(u) /\ wait \in 0..Forever
      BY <2>4, ZeroTime DEF Keeps, Good, HandlerStates
    <3>2. /\ v \in HandlerStates /\ v.due = u.due /\ v.global_scene = TRUE
          /\ v.target = u.target /\ v.health = u.health
      <4> HIDE DEF wait
      <4> QED BY <3>1, ZenonT(120) DEF Good, HandlerStates
    <3>3. Keeps(u, v)
      BY <3>2, KeepsReport DEF Good
    <3> HIDE DEF v
    <3>4. Keeps(v, Versioned(v, "OnOff"))
      BY <3>3, VersionedKeeps DEF Keeps, Clusters
    <3> QED BY <2>2, <3>1, <3>3, <3>4, KeepsChains, KeepsNothing DEF v
  <2> QED BY <2>1, <2>4, <2>5, KeepsChains
<1> QED BY <1>1, <1>2

LEMMA RecallSceneKeeps ==
  ASSUME NEW s, Good(s), NEW scene \in LightStates, NEW fields \in SUBSET Fields,
         NEW t \in RecallScene(s, scene, fields)
  PROVE  Keeps(s, t)
<1> DEFINE draft == [field \in Fields |->
                       IF field \in fields THEN scene[field] ELSE s.target[field]]
           begun == [s EXCEPT !.scene = draft, !.coupled_temperature = FALSE,
                              !.on_time = 0, !.off_wait = 0, !.timed = FALSE]
<1>1. CASE Reported(s) = None
  BY <1>1, KeepsNothing DEF RecallScene
<1>2. CASE Reported(s) # None
  <2>1. draft \in LightStates
    <3>1. s.target \in LightStates
      BY ReportedState
    <3>2. /\ draft = [on |-> draft["on"], level |-> draft["level"],
                      temperature |-> draft["temperature"]]
          /\ draft["on"] \in {scene.on, s.target.on}
          /\ draft["level"] \in {scene.level, s.target.level}
          /\ draft["temperature"] \in {scene.temperature, s.target.temperature}
      BY DEF Fields
    <3> QED BY <3>1, <3>2 DEF LightStates
  <2>2. PICK u \in Commit(begun, draft) :
          t = IF u.health # "up" THEN Changed(u)
              ELSE Versioned([u EXCEPT !.global_scene = @ \/ draft.on,
                                       !.scene_intent = draft], "OnOff")
    BY <1>2 DEF RecallScene
  <2> HIDE DEF draft
  <2>3. Keeps(s, begun)
    <3>1. /\ begun \in HandlerStates /\ begun.due = s.due
          /\ begun.global_scene = s.global_scene
          /\ begun.global_scene_state = s.global_scene_state
          /\ begun.target = s.target /\ begun.health = s.health
      BY <2>1, ZeroTime DEF Good, HandlerStates
    <3> QED BY <3>1, KeepsReport DEF Good
  <2> HIDE DEF begun
  <2>4. Keeps(begun, u)
    BY <2>1, <2>2, <2>3, CommitKeeps DEF Keeps
  <2>5. Keeps(u, t)
    <3> DEFINE flag == u.global_scene \/ draft.on
               v == [u EXCEPT !.global_scene = flag, !.scene_intent = draft]
    <3>1. Good(u) /\ flag \in BOOLEAN /\ (u.global_scene => flag)
      BY <2>4 DEF Keeps
    <3>2. t = IF u.health # "up" THEN Changed(u) ELSE Versioned(v, "OnOff")
      BY <2>2
    <3> HIDE DEF flag
    <3>3. /\ v \in HandlerStates /\ v.due = u.due
          /\ v.global_scene = flag /\ v.global_scene_state = u.global_scene_state
          /\ v.target = u.target /\ v.health = u.health
      BY <2>1, <3>1, ZenonT(120) DEF Good, HandlerStates
    <3>4. Keeps(u, v)
      BY <3>1, <3>3, KeepsReport DEF Good
    <3> HIDE DEF v
    <3>5. Keeps(v, Versioned(v, "OnOff"))
      BY <3>4, VersionedKeeps DEF Keeps, Clusters
    <3> QED BY <3>1, <3>2, <3>4, <3>5, KeepsChains, ChangedKeeps
  <2> QED BY <2>3, <2>4, <2>5, KeepsChains
<1> QED BY <1>1, <1>2

LEMMA AbortSceneKeeps == ASSUME NEW s, Good(s), NEW t \in AbortScene(s) PROVE Keeps(s, t)
  BY KeepsNothing, ChangedKeeps DEF AbortScene

LEMMA StoreSceneKeeps == ASSUME NEW s, Good(s), NEW t \in StoreScene(s) PROVE Keeps(s, t)
<1>1. CASE Reported(s) = None
  BY <1>1, KeepsNothing DEF StoreScene
<1>2. CASE Reported(s) # None
  <2>1. t = [s EXCEPT !.scene = Reported(s), !.scene_intent = None]
    BY <1>2 DEF StoreScene
  <2>2. Reported(s) \in LightStates
    BY <1>2, ReportedState
  <2>3. /\ t \in HandlerStates /\ t.due = s.due
        /\ t.global_scene = s.global_scene /\ t.global_scene_state = s.global_scene_state
        /\ t.target = s.target /\ t.health = s.health
    BY <2>1, <2>2 DEF Good, HandlerStates
  <2> QED BY <2>3, KeepsReport DEF Good
<1> QED BY <1>1, <1>2

LEMMA AtLeastOneIsLevel ==
  ASSUME NEW raw \in 0..LevelMax PROVE AtLeastOne(raw) \in Levels
  BY HandlerAssumption, UnitsAssumption DEF AtLeastOne, Levels

\* The coupled colour stays in its range at every level.
LEMMA CoupledTemperatureInRange ==
  ASSUME NEW raw \in 0..LevelMax PROVE CoupledTemperature(raw) \in Temperatures
<1> DEFINE above == AtLeastOne(raw) - 1
           steps == LevelMax - 1
           range == TempMax - TempMin
<1>1. above \in 0..steps /\ steps \in Nat \ {0}
  BY AtLeastOneIsLevel, HandlerAssumption, UnitsAssumption DEF Levels
<1>2. range \in Nat /\ TempMax \in Nat /\ TempMin \in Nat
  BY UnitsAssumption DEF Temperatures
<1> HIDE DEF above, steps
<1>3. (above * range) \in Nat /\ above * range <= steps * range
  <2> HIDE DEF range
  <2>1. PICK rest \in Nat : steps = above + rest
    <3>1. steps - above \in Nat /\ steps = above + (steps - above)
      BY <1>1
    <3> QED BY <3>1
  <2>2. above * range \in Nat /\ rest * range \in Nat
    BY <1>1, <1>2, <2>1, SMT
  <2>3. steps * range = above * range + rest * range
    BY <1>1, <1>2, <2>1, SMT
  <2> QED BY <2>2, <2>3
<1>4. (above * range) \div steps \in 0..range
  <2> HIDE DEF range
  <2> QED BY <1>1, <1>2, <1>3, QuotientBound
<1> DEFINE below == (above * range) \div steps
<1>5. CoupledTemperature(raw) = TempMax - below
  BY DEF CoupledTemperature, above, steps
<1>6. below \in 0..(TempMax - TempMin)
  BY <1>4
<1> HIDE DEF below
<1> QED BY <1>2, <1>5, <1>6 DEF Temperatures

LEMMA LevelToKeeps ==
  ASSUME NEW s, Good(s), NEW raw \in 0..LevelMax, NEW with_on_off \in BOOLEAN,
         NEW execute_if_off \in BOOLEAN, NEW couple \in BOOLEAN,
         NEW t \in LevelTo(s, raw, with_on_off, execute_if_off, couple)
  PROVE  Keeps(s, t)
<1> DEFINE on == IF with_on_off THEN raw > 1 ELSE s.target.on
           target == [s.target EXCEPT !.level = AtLeastOne(raw), !.on = on]
           warm == [target EXCEPT !.temperature = CoupledTemperature(raw)]
           lit == with_on_off /\ raw > 1
           coupled(u) == {[v EXCEPT !.coupled_temperature = v.health = "up"] : v \in Commit(u, warm)}
           finished(u) == [u EXCEPT !.global_scene = @ \/ lit]
           second(u) == IF couple THEN coupled(u) ELSE {[u EXCEPT !.coupled_temperature = FALSE]}
           c == Changed(s)
<1>1. on \in BOOLEAN /\ lit \in BOOLEAN /\ s.target \in LightStates
  <2>1. s.target \in LightStates
    BY ReportedState
  <2>2. s.target.on \in BOOLEAN /\ (raw > 1) \in BOOLEAN
    BY <2>1 DEF LightStates
  <2> QED BY <2>1, <2>2, Zenon
<1>2. target \in LightStates /\ warm \in LightStates
  <2> HIDE DEF on
  <2> QED BY <1>1, AtLeastOneIsLevel, CoupledTemperatureInRange DEF LightStates
<1>3. Keeps(s, c)
  BY ChangedKeeps
<1>4. CASE ~(with_on_off \/ IsOn(s) \/ (Reported(s) # None /\ execute_if_off))
  BY <1>4, KeepsNothing DEF LevelTo
<1>5. CASE with_on_off \/ IsOn(s) \/ (Reported(s) # None /\ execute_if_off)
  <2>1. PICK u \in Commit(c, target) :
          t \in IF u.health # "up" THEN {u}
                ELSE {IF v.health = "up" THEN finished(v) ELSE v : v \in second(u)}
    BY <1>5 DEF LevelTo
  <2> HIDE DEF c, target, warm, lit
  <2>2. Keeps(c, u)
    BY <1>2, <1>3, <2>1, CommitKeeps DEF Keeps
  <2>3. ASSUME NEW v \in second(u) PROVE Keeps(u, v)
    <3>1. Good(u)
      BY <2>2 DEF Keeps
    <3>2. CASE couple
      <4>1. PICK w \in Commit(u, warm) : v = [w EXCEPT !.coupled_temperature = w.health = "up"]
        BY <2>3, <3>2
      <4>2. Keeps(u, w)
        BY <1>2, <3>1, CommitKeeps
      <4>3. (w.health = "up") \in BOOLEAN
        OBVIOUS
      <4>4. Keeps(w, v)
        BY <4>1, <4>2, <4>3, CoupledKeeps DEF Keeps
      <4> QED BY <4>2, <4>4, KeepsChains
    <3>3. CASE ~couple
      BY <2>3, <3>1, <3>3, CoupledKeeps
    <3> QED BY <3>2, <3>3
  <2>4. ASSUME NEW v, Good(v) PROVE Keeps(v, finished(v))
    <3> DEFINE flag == v.global_scene \/ lit
    <3>1. flag \in BOOLEAN /\ (v.global_scene => flag)
      OBVIOUS
    <3>2. finished(v) = [v EXCEPT !.global_scene = flag]
      OBVIOUS
    <3> HIDE DEF flag
    <3>3. /\ finished(v) \in HandlerStates /\ finished(v).due = v.due
          /\ finished(v).global_scene = flag
          /\ finished(v).global_scene_state = v.global_scene_state
          /\ finished(v).target = v.target /\ finished(v).health = v.health
      BY <2>4, <3>1, <3>2 DEF Good, HandlerStates
    <3> QED BY <2>4, <3>1, <3>3, KeepsReport DEF Good
  <2>5. Keeps(u, t)
    <3>1. CASE u.health # "up"
      BY <2>1, <2>2, <3>1, KeepsNothing DEF Keeps
    <3>2. CASE u.health = "up"
      <4>1. PICK v \in second(u) : t = IF v.health = "up" THEN finished(v) ELSE v
        BY <2>1, <3>2
      <4>2. Keeps(u, v)
        BY <2>3
      <4>3. Keeps(v, finished(v))
        BY <2>4, <4>2 DEF Keeps
      <4> HIDE DEF finished, second
      <4> QED BY <4>1, <4>2, <4>3, KeepsChains
    <3> QED BY <3>1, <3>2
  <2> QED BY <1>3, <2>2, <2>5, KeepsChains
<1> QED BY <1>4, <1>5

LEMMA ColorToKeeps ==
  ASSUME NEW s, Good(s), NEW temperature \in Temperatures, NEW execute_if_off \in BOOLEAN,
         NEW t \in ColorTo(s, temperature, execute_if_off)
  PROVE  Keeps(s, t)
<1>1. CASE ~(IsOn(s) \/ (Reported(s) # None /\ execute_if_off))
  BY <1>1, KeepsNothing DEF ColorTo
<1>2. CASE IsOn(s) \/ (Reported(s) # None /\ execute_if_off)
  <2> DEFINE c == Changed(s)
             d == [c EXCEPT !.coupled_temperature = FALSE]
             target == [s.target EXCEPT !.temperature = temperature]
  <2>1. t \in Commit(d, target)
    BY <1>2 DEF ColorTo
  <2>2. target \in LightStates
    BY ReportedState DEF LightStates
  <2>3. Keeps(s, c)
    BY ChangedKeeps
  <2> HIDE DEF c
  <2>4. Keeps(c, d)
    BY <2>3, CoupledKeeps DEF Keeps
  <2> HIDE DEF d, target
  <2>5. Keeps(d, t)
    BY <2>1, <2>2, <2>4, CommitKeeps DEF Keeps
  <2> QED BY <2>3, <2>4, <2>5, KeepsChains
<1> QED BY <1>1, <1>2

\* Recolouring what is reported, or leaving it.
LEMMA RecolouredKeeps ==
  ASSUME NEW s, Good(s), NEW temperature \in Temperatures,
         NEW t \in {s} \cup Commit(s, [s.target EXCEPT !.temperature = temperature])
  PROVE  Keeps(s, t)
<1>1. [s.target EXCEPT !.temperature = temperature] \in LightStates
  BY ReportedState DEF LightStates
<1> QED BY <1>1, CommitKeeps, KeepsNothing

LEMMA StopLevelKeeps ==
  ASSUME NEW s, Good(s), NEW stopped \in LightStates, NEW t \in StopLevel(s, stopped)
  PROVE  Keeps(s, t)
<1> DEFINE c == Changed(s)
<1>1. Keeps(s, c)
  BY ChangedKeeps
<1>2. PICK u \in {c} \cup Commit(c, stopped) :
        \/ t = u
        \/ LET v == [u EXCEPT !.coupled_temperature = FALSE]
           IN  t \in {v} \cup Commit(v, [v.target EXCEPT !.temperature = stopped.temperature])
  BY DEF StopLevel
<1> HIDE DEF c
<1>3. Keeps(c, u)
  BY <1>1, <1>2, CommitKeeps, KeepsNothing DEF Keeps
<1>4. Keeps(u, t)
  <2> DEFINE v == [u EXCEPT !.coupled_temperature = FALSE]
  <2>1. Good(u) /\ stopped.temperature \in Temperatures
    BY <1>3 DEF Keeps, LightStates
  <2>2. Keeps(u, v)
    BY <2>1, CoupledKeeps
  <2> HIDE DEF v
  <2>3. CASE t = u
    BY <2>1, <2>3, KeepsNothing
  <2>4. CASE t \in {v} \cup Commit(v, [v.target EXCEPT !.temperature = stopped.temperature])
    <3>1. Keeps(v, t)
      BY <2>1, <2>2, <2>4, RecolouredKeeps DEF Keeps
    <3> QED BY <2>2, <3>1, KeepsChains
  <2> QED BY <1>2, <2>3, <2>4 DEF v
<1> QED BY <1>1, <1>3, <1>4, KeepsChains

LEMMA StopColorKeeps ==
  ASSUME NEW s, Good(s), NEW temperature \in Temperatures, NEW t \in StopColor(s, temperature)
  PROVE  Keeps(s, t)
<1>1. CASE Reported(s) = None
  BY <1>1, KeepsNothing DEF StopColor
<1>2. CASE Reported(s) # None
  <2> DEFINE c == Changed(s)
             d == [c EXCEPT !.coupled_temperature = FALSE]
  <2>1. t \in {d} \cup Commit(d, [d.target EXCEPT !.temperature = temperature])
    <3>1. d.target = s.target
      BY DEF Good, HandlerStates, Changed
    <3> QED BY <1>2, <3>1 DEF StopColor
  <2>2. Keeps(s, c)
    BY ChangedKeeps
  <2> HIDE DEF c
  <2>3. Keeps(c, d)
    BY <2>2, CoupledKeeps DEF Keeps
  <2> HIDE DEF d
  <2>4. Keeps(d, t)
    BY <2>1, <2>3, RecolouredKeeps DEF Keeps
  <2> QED BY <2>2, <2>3, <2>4, KeepsChains
<1> QED BY <1>1, <1>2

LEMMA WritesKeep ==
  ASSUME NEW s, Good(s), NEW time \in 0..Forever, NEW level \in Levels \cup {None},
         NEW t \in SetOnTime(s, time) \cup SetOffWaitTime(s, time) \cup SetOnLevel(s, level)
  PROVE  Keeps(s, t)
<1>1. PICK u \in {[s EXCEPT !.on_time = time], [s EXCEPT !.off_wait = time],
                  [s EXCEPT !.on_level = level]}, cluster \in Clusters :
        t = Versioned(u, cluster)
  BY DEF SetOnTime, SetOffWaitTime, SetOnLevel, Clusters
<1>2. /\ u \in HandlerStates /\ u.due = s.due
      /\ u.global_scene = s.global_scene /\ u.global_scene_state = s.global_scene_state
      /\ u.target = s.target /\ u.health = s.health
  BY <1>1 DEF Good, HandlerStates
<1>3. Keeps(s, u)
  BY <1>2, KeepsReport DEF Good
<1>4. Keeps(u, t)
  BY <1>1, <1>3, VersionedKeeps DEF Keeps
<1> QED BY <1>3, <1>4, KeepsChains

\* A poll changes nothing that is reported, and clears its cluster only.
LEMMA PolledIsGood ==
  ASSUME NEW s, Good(s), NEW cluster \in Clusters
  PROVE  /\ Good(Polled(s, cluster))
         /\ Reported(Polled(s, cluster)) = Reported(s)
         /\ Polled(s, cluster).due = s.due \ {cluster}
<1> DEFINE announced == s.scene_intent # None /\ Reported(s) = s.scene_intent
           t == IF cluster = "OnOff" /\ Reported(s) # s.output /\ ~announced
                THEN Changed(s) ELSE s
           output == IF cluster = "OnOff" THEN Reported(s) ELSE t.output
           due == t.due \ {cluster}
           u == [t EXCEPT !.due = due, !.output = output]
<1>1. Polled(s, cluster) = u
  BY DEF Polled
<1>2. /\ Good(t) /\ t.due = s.due /\ t.target = s.target /\ t.health = s.health
  <2>1. t \in {s, Changed(s)}
    OBVIOUS
  <2>2. Changed(s).due = s.due /\ Changed(s).target = s.target /\ Changed(s).health = s.health
    BY DEF Good, HandlerStates, Changed
  <2>3. Good(Changed(s))
    BY ChangedKeeps DEF Keeps
  <2> HIDE DEF t
  <2> QED BY <2>1, <2>2, <2>3
<1> HIDE DEF t
<1>3. output \in LightStates \cup {None} /\ due \in SUBSET Clusters
  BY <1>2, ReportedState DEF Good, HandlerStates
<1> HIDE DEF output
<1>4. /\ u \in HandlerStates /\ u.due = due
      /\ u.global_scene = t.global_scene /\ u.global_scene_state = t.global_scene_state
      /\ u.target = t.target /\ u.health = t.health
  <2> HIDE DEF due
  <2> QED BY <1>2, <1>3, ZenonT(120) DEF Good, HandlerStates
<1> QED BY <1>1, <1>2, <1>4 DEF Good, Reported

-----------------------------------------------------------------------------
(* The steps.                                                              *)

\* What is stale is due: good as it stands for every step but a poll.
Inv == Good(st) /\ stale \subseteq st.due

LEMMA HandleKeeps ==
  ASSUME Inv, NEW states, \A t \in states : Keeps(st, t), Handle(states)
  PROVE  Inv'
<1>1. Keeps(st, st')
  BY DEF Handle
<1>2. stale' = IF Reported(st') # Reported(st) THEN Clusters ELSE stale
  BY DEF Handle, Told
<1> QED BY <1>1, <1>2 DEF Inv, Keeps

LEMMA InputsInRange ==
  /\ OnTimes \subseteq 0..Forever /\ OffWaits \subseteq 0..Forever
  /\ TimeWrites \subseteq 0..Forever /\ OnLevels \subseteq Levels \cup {None}
  /\ Scenes \subseteq LightStates /\ ConsoleTargets \subseteq LightStates
  /\ LevelInputs \subseteq 0..LevelMax /\ TemperatureInputs \subseteq Temperatures
  /\ SceneFields \subseteq SUBSET Fields
  BY HandlerAssumption

LEMMA TimersStep == ASSUME Inv, Timers PROVE Inv'
<1> USE DEF Inv
<1>1. ASSUME NEW on \in BOOLEAN, Handle(Power(st, on)) PROVE Inv'
  BY <1>1, PowerKeeps, HandleKeeps
<1>2. CASE Handle(Toggle(st))
  BY <1>2, ToggleKeeps, HandleKeeps
<1>3. CASE Handle(OffWithEffect(st))
  BY <1>3, OffWithEffectKeeps, HandleKeeps
<1>4. ASSUME NEW accept_only_on \in BOOLEAN, NEW on_time \in OnTimes, NEW off_wait \in OffWaits,
             Handle(TimedOn(st, accept_only_on, on_time, off_wait))
      PROVE  Inv'
  BY <1>4, TimedOnKeeps, HandleKeeps
<1>5. ASSUME NEW value \in TimeWrites, Handle(SetOnTime(st, value) \cup SetOffWaitTime(st, value))
      PROVE  Inv'
  <2>1. \A t \in SetOnTime(st, value) \cup SetOffWaitTime(st, value) : Keeps(st, t)
    BY <1>5, WritesKeep, InputsInRange
  <2> QED BY <1>5, <2>1, HandleKeeps
<1>6. ASSUME NEW value \in OnLevels, Handle(SetOnLevel(st, value)) PROVE Inv'
  <2>1. \A t \in SetOnLevel(st, value) : Keeps(st, t)
    BY <1>6, WritesKeep, InputsInRange, ZeroTime
  <2> QED BY <1>6, <2>1, HandleKeeps
<1> QED BY <1>1, <1>2, <1>3, <1>4, <1>5, <1>6 DEF Timers

LEMMA TickStep == ASSUME Inv, Tick PROVE Inv'
<1>1. PICK elapsed \in Elapsed : Handle(Ticked(st, elapsed))
  BY DEF Tick
<1> QED BY <1>1, TickedKeeps, HandleKeeps DEF Inv

LEMMA ScenesStep == ASSUME Inv, ScenesNext PROVE Inv'
<1> USE DEF Inv
<1>1. CASE Handle(RecallGlobalScene(st))
  BY <1>1, RecallGlobalSceneKeeps, HandleKeeps
<1>2. ASSUME NEW scene \in Scenes, NEW fields \in SceneFields,
             Handle(RecallScene(st, scene, fields))
      PROVE  Inv'
  <2>1. scene \in LightStates /\ fields \in SUBSET Fields
    BY InputsInRange
  <2> QED BY <1>2, <2>1, RecallSceneKeeps, HandleKeeps
<1>3. CASE Handle(AbortScene(st))
  BY <1>3, AbortSceneKeeps, HandleKeeps
<1>4. CASE Handle(StoreScene(st))
  BY <1>4, StoreSceneKeeps, HandleKeeps
<1> QED BY <1>1, <1>2, <1>3, <1>4 DEF ScenesNext

LEMMA LevelAndColorStep == ASSUME Inv, LevelAndColor PROVE Inv'
<1> USE DEF Inv
<1>1. ASSUME NEW raw \in LevelInputs, NEW with_on_off \in BOOLEAN, NEW execute_if_off \in BOOLEAN,
             NEW couple \in BOOLEAN, Handle(LevelTo(st, raw, with_on_off, execute_if_off, couple))
      PROVE  Inv'
  <2>1. raw \in 0..LevelMax
    BY InputsInRange
  <2> QED BY <1>1, <2>1, LevelToKeeps, HandleKeeps
<1>2. ASSUME NEW temperature \in TemperatureInputs, NEW execute_if_off \in BOOLEAN,
             Handle(ColorTo(st, temperature, execute_if_off))
      PROVE  Inv'
  <2>1. temperature \in Temperatures
    BY InputsInRange
  <2> QED BY <1>2, <2>1, ColorToKeeps, HandleKeeps
<1>3. ASSUME NEW stopped \in ConsoleTargets, Handle(StopLevel(st, stopped)) PROVE Inv'
  <2>1. stopped \in LightStates
    BY InputsInRange
  <2> QED BY <1>3, <2>1, StopLevelKeeps, HandleKeeps
<1>4. ASSUME NEW temperature \in TemperatureInputs, Handle(StopColor(st, temperature)) PROVE Inv'
  <2>1. temperature \in Temperatures
    BY InputsInRange
  <2> QED BY <1>4, <2>1, StopColorKeeps, HandleKeeps
<1> QED BY <1>1, <1>2, <1>3, <1>4 DEF LevelAndColor

LEMMA PollStep == ASSUME Inv, NEW cluster \in Clusters, PollOf(cluster) PROVE Inv'
<1>1. /\ Good(st') /\ Reported(st') = Reported(st) /\ st'.due = st.due \ {cluster}
  BY PolledIsGood DEF Inv, PollOf
<1>2. stale' = stale \ ({cluster} \cap st.due)
  BY <1>1 DEF PollOf, Told
<1> QED BY <1>1, <1>2 DEF Inv

\* The steps of others, each a move of Runtime.
LEMMA AroundStep == ASSUME Inv, Around PROVE Inv'
<1>1. Good(st) /\ st \in HandlerStates /\ st.target \in LightStates
  BY ReportedState DEF Inv, Good
<1>2. CASE Console
  BY <1>1, <1>2, CommitKeeps, HandleKeeps, InputsInRange DEF Console
<1>3. CASE LocalOff
  <2> DEFINE target == [st.target EXCEPT !.on = FALSE]
             off == [st EXCEPT !.target = target]
  <2>1. target \in LightStates
    BY <1>1 DEF LightStates
  <2>2. off = [st EXCEPT !.target.on = FALSE]
    BY <1>1 DEF HandlerStates
  <2>3. ASSUME NEW health \in {"up", "down"}
        PROVE  Keeps(st, [off EXCEPT !.health = health, !.due = Clusters])
    <3>1. [off EXCEPT !.health = health, !.due = Clusters]
            = [st EXCEPT !.target = target, !.health = health, !.due = Clusters]
      BY <1>1 DEF HandlerStates
    <3> QED BY <1>1, <2>1, <3>1, MoveKeeps
  <2>4. ASSUME st.health = "refusing" PROVE Keeps(st, off)
    <3>1. /\ off \in HandlerStates /\ off.due = st.due /\ off.health = st.health
          /\ off.global_scene = st.global_scene
          /\ off.global_scene_state = st.global_scene_state
      BY <1>1, <2>1 DEF HandlerStates
    <3>2. Reported(off) = None /\ Reported(st) = None
      BY <2>4, <3>1 DEF Reported
    <3> QED BY <1>1, <3>1, <3>2 DEF Keeps, Good
  <2> DEFINE states ==
        {[off EXCEPT !.health = health, !.due = Clusters] : health \in {"up", "down"}}
          \cup (IF st.health = "refusing" THEN {off} ELSE {})
  <2>5. Handle(states)
    BY <1>3, <2>2 DEF LocalOff
  <2> HIDE DEF off
  <2>6. \A t \in states : Keeps(st, t)
    BY <2>3, <2>4
  <2> QED BY <2>5, <2>6, HandleKeeps
<1>4. ASSUME NEW health \in {"up", "down", "refusing"},
             Handle({[st EXCEPT !.health = health, !.due = Clusters]})
      PROVE  Inv'
  <2>1. [st EXCEPT !.health = health, !.due = Clusters]
          = [st EXCEPT !.target = st.target, !.health = health, !.due = Clusters]
    BY <1>1 DEF HandlerStates
  <2>2. Keeps(st, [st EXCEPT !.health = health, !.due = Clusters])
    BY <1>1, <2>1, MoveKeeps, ZenonT(120)
  <2> QED BY <1>4, <2>2, HandleKeeps
<1>5. CASE Fails \/ Recovers \/ Refuses
  BY <1>4, <1>5 DEF Fails, Recovers, Refuses
<1>6. CASE Reloads
  <2>1. PICK target \in ConsoleTargets, health \in {"up", "down"} :
          Handle({[st EXCEPT !.target = target, !.health = health, !.due = Clusters]})
    BY <1>6 DEF Reloads
  <2>2. Keeps(st, [st EXCEPT !.target = target, !.health = health, !.due = Clusters])
    BY <1>1, InputsInRange, MoveKeeps
  <2> QED BY <2>1, <2>2, HandleKeeps
<1>7. CASE TransportRestart
  <2>1. Reported(st) \in LightStates \cup {None}
    BY <1>1, ReportedState
  <2>2. /\ st' \in HandlerStates /\ st'.due = {}
        /\ st'.global_scene = st.global_scene
        /\ st'.global_scene_state = st.global_scene_state
    BY <1>1, <1>7, <2>1 DEF TransportRestart, HandlerStates
  <2> QED BY <1>1, <1>7, <2>2 DEF TransportRestart, Inv, Good
<1> QED BY <1>2, <1>3, <1>5, <1>6, <1>7 DEF Around

LEMMA FreshIsGood ==
  ASSUME NEW target \in LightStates, NEW health \in {"down", "refusing"}
  PROVE  Good(Fresh(target, health)) /\ Fresh(target, health).due = {}
  BY ZeroTime DEF Good, HandlerStates, Fresh

LEMMA Initially == Init => Inv
<1>1. DefaultState \in LightStates
  BY UnitsAssumption DEF DefaultState, LightStates
<1> QED BY <1>1, FreshIsGood DEF Init, Inv

LEMMA Step == Inv /\ [Next]_vars => Inv'
<1> SUFFICES ASSUME Inv, [Next]_vars PROVE Inv'
  OBVIOUS
<1>1. CASE MatterCommand
  BY <1>1, TimersStep, ScenesStep, LevelAndColorStep DEF MatterCommand
<1>2. CASE Tick
  BY <1>2, TickStep
<1>3. CASE Poll
  BY <1>3, PollStep DEF Poll
<1>4. CASE Around
  BY <1>4, AroundStep
<1>5. CASE Restart
  <2>1. st.target \in LightStates
    BY ReportedState DEF Inv
  <2> QED BY <1>5, <2>1, FreshIsGood DEF Restart, Inv
<1>6. CASE UNCHANGED vars
  BY <1>6 DEF vars, Inv
<1> QED BY <1>1, <1>2, <1>3, <1>4, <1>5, <1>6 DEF Next

LEMMA Invariant == Spec => []Inv
  BY Initially, Step, PTL DEF Spec

-----------------------------------------------------------------------------
\* Every cell keeps its range: timers stay in 0..Forever and no command, a
\* coupled colour included, leaves the levels or temperatures (presets.rs).
THEOREM TypeCorrect == Spec => []TypeOK
<1>1. Inv => TypeOK
  BY DEF Inv, Good, HandlerStates, TypeOK
<1> QED BY <1>1, Invariant, PTL

\* A cleared global-scene flag has a state to return to, for any commands,
\* faults and restarts (presets.rs, save_global_scene).
THEOREM GlobalSceneStaysSaved == Spec => []GlobalSceneIsSaved
<1>1. Inv => GlobalSceneIsSaved
  BY DEF Inv, Good, GlobalSceneIsSaved
<1> QED BY <1>1, Invariant, PTL

\* Controllers were told of every change, or their next poll will tell
\* (presets.rs, poll_report).
THEOREM ReportsStayTold == Spec => []ReportsAreTold
<1>1. Inv => ReportsAreTold
  BY DEF Inv, ReportsAreTold
<1> QED BY <1>1, Invariant, PTL
=============================================================================
