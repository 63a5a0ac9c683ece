---------------------------- MODULE KonetCli_proofs ---------------------------
(***************************************************************************)
(* Proofs about KonetCli, for any number of shells and any bounds.          *)
(***************************************************************************)
EXTENDS KonetCli, TLAPS

-----------------------------------------------------------------------------
(* Types *)

LEMMA ConfigType ==
  ASSUME NEW a \in Secret, NEW b \in Secret, NEW c \in Secret
  PROVE  Config(a, b, c) \in Configs
  BY DEF Config, Configs

LEMMA ConstantType ==
  /\ 0 \in Secret /\ 0 \in 0 .. MaxMade
  /\ Empty \in Configs /\ Absent \in Configs /\ Garbled \in Configs
  /\ Idle \in Process /\ NoContainer \in Containers
  <1>1. 0 \in Secret /\ 0 \in 0 .. MaxMade
    BY ConstAssumption DEF Secret
  <1>2. Empty \in Configs /\ Absent \in Configs /\ Garbled \in Configs
    BY <1>1 DEF Empty, Absent, Garbled, Config, Configs
  <1> QED
    BY <1>1, <1>2 DEF Idle, Process, AtShell, NoContainer, Containers

\* The three ways in which a command goes on.
LEMMA GoOnType ==
  ASSUME TypeOK, NEW p \in Shell
  PROVE  /\ Ends(p) => shell' \in [Shell -> Process]
         /\ \A place \in AtShell : GoTo(p, place) => shell' \in [Shell -> Process]
         /\ \A place \in AtShell, cfg \in Configs, cmd \in {"init", "keys", "start", "stop", "upgrade"} :
              Runs(p, place, cmd, cfg) => shell' \in [Shell -> Process]
  <1>1. Ends(p) => shell' \in [Shell -> Process]
    BY ConstantType DEF Ends, TypeOK
  <1>2. ASSUME NEW place \in AtShell, GoTo(p, place)
        PROVE  shell' \in [Shell -> Process]
    <2>1. [shell[p] EXCEPT !.at = place] \in Process
      BY DEF TypeOK, Process
    <2> QED
      BY <1>2, <2>1 DEF GoTo, TypeOK
  <1>3. ASSUME NEW place \in AtShell, NEW cfg \in Configs,
               NEW cmd \in {"init", "keys", "start", "stop", "upgrade"}, Runs(p, place, cmd, cfg)
        PROVE  shell' \in [Shell -> Process]
    <2>1. [Idle EXCEPT !.at = place, !.cmd = cmd, !.cfg = cfg] \in Process
      BY ConstantType DEF Idle, Process
    <2> QED
      BY <1>3, <2>1 DEF Runs, TypeOK
  <1> QED
    BY <1>1, <1>2, <1>3

\* What the bounds count.
LEMMA CountType ==
  ASSUME TypeOK
  PROVE  /\ \A p \in Shell : Begin(p) => calls' \in 0 .. MaxCalls /\ raced' \in BOOLEAN /\ alone' \subseteq Shell
         /\ Upset => upsets' \in 0 .. MaxUpsets
         /\ secrets < MaxSecrets => secrets + 1 \in Secret
         /\ secrets + 2 <= MaxSecrets => secrets + 1 \in Secret /\ secrets + 2 \in Secret
         /\ made < MaxMade => made + 1 \in 0 .. MaxMade
  <1>1. /\ calls \in 0 .. MaxCalls /\ upsets \in 0 .. MaxUpsets
        /\ secrets \in Secret /\ made \in 0 .. MaxMade /\ raced \in BOOLEAN
    BY DEF TypeOK
  <1>2. ASSUME NEW p \in Shell, Begin(p)
        PROVE  calls' \in 0 .. MaxCalls /\ raced' \in BOOLEAN /\ alone' \subseteq Shell
    BY <1>1, <1>2, ConstAssumption DEF Begin
  <1> QED
    BY <1>1, <1>2, ConstAssumption DEF Upset, Secret

\* What a request that Docker refuses is remembered as.
LEMMA RefuseType ==
  ASSUME TypeOK, NEW p \in Shell
  PROVE  \A why \in {"stop", "remove", "name conflict", "start"} : Refuse(p, why) =>
           /\ shell' \in [Shell -> Process]
           /\ refused' \subseteq [why : {"stop", "remove", "name conflict", "start"}, how : {"alone", "disturbed"}]
           /\ UNCHANGED container
  <1> SUFFICES ASSUME NEW why \in {"stop", "remove", "name conflict", "start"}, Refuse(p, why)
               PROVE  /\ shell' \in [Shell -> Process]
                      /\ refused' \subseteq [why : {"stop", "remove", "name conflict", "start"}, how : {"alone", "disturbed"}]
                      /\ UNCHANGED container
    OBVIOUS
  <1>1. Ends(p) /\ UNCHANGED container
    BY DEF Refuse
  <1>2. [why |-> why, how |-> IF p \in alone THEN "alone" ELSE "disturbed"]
          \in [why : {"stop", "remove", "name conflict", "start"}, how : {"alone", "disturbed"}]
    OBVIOUS
  <1>3. refused' = refused \union {[why |-> why, how |-> IF p \in alone THEN "alone" ELSE "disturbed"]}
    BY DEF Refuse
  <1> QED
    <2>1. shell' \in [Shell -> Process]
      BY <1>1, GoOnType
    <2>2. refused \subseteq [why : {"stop", "remove", "name conflict", "start"}, how : {"alone", "disturbed"}]
      BY DEF TypeOK
    <2> QED
      BY <1>1, <1>2, <1>3, <2>1, <2>2

LEMMA TypeStep ==
  ASSUME TypeOK, Next
  PROVE  TypeOK'
  <1> USE ConstantType, CountType DEF AtShell, TypeOK
  <1>1. ASSUME NEW p \in Shell, Command(p)
        PROVE  TypeOK'
    <2> USE GoOnType
    <2>1. CASE InitCmd(p)
      <3>1. CASE UNCHANGED <<shell, secrets>>
        BY <2>1, <3>1 DEF InitCmd
      <3>2. CASE /\ secrets + 2 <= MaxSecrets /\ secrets' = secrets + 2
                 /\ Runs(p, "truncating", "init", Config(secrets + 1, secrets + 2, 0))
        <4>1. secrets + 1 \in Secret /\ secrets + 2 \in Secret
          BY <3>2
        <4> QED
          BY <2>1, <3>2, <4>1, ConfigType DEF InitCmd
      <3> QED
        BY <2>1, <3>1, <3>2 DEF InitCmd
    <2>2. CASE KeysGenerate(p)
      <3>1. [file EXCEPT !.keys = file.jwt] \in Configs
        BY DEF Configs
      <3> QED
        BY <2>2, <3>1 DEF KeysGenerate
    <2>3. CASE Start(p)
      BY <2>3 DEF Start
    <2>4. CASE Stop(p)
      BY <2>4 DEF Stop
    <2>5. CASE Upgrade(p)
      BY <2>5 DEF Upgrade
    <2> QED
      BY <1>1, <2>1, <2>2, <2>3, <2>4, <2>5 DEF Command
  <1>2. ASSUME NEW p \in Shell, Continue(p)
        PROVE  TypeOK'
    <2> USE GoOnType
    <2>1. CASE Truncate(p)
      BY <2>1 DEF Truncate
    <2>2. CASE Encode(p)
      <3>1. shell[p].cfg \in Configs
        BY DEF Process
      <3> QED
        BY <2>2, <3>1 DEF Encode, Saved
    <2>3. CASE IsRunning(p)
      BY <2>3 DEF IsRunning
    <2>4. CASE PullImage(p)
      <3>1. CASE secrets < MaxSecrets /\ secrets' = secrets + 1
                 /\ shell' = [shell EXCEPT ![p].cfg.skb = secrets + 1, ![p].at = Kept(p)]
        <4>1. secrets + 1 \in Secret
          BY <3>1
        <4>2. [shell[p] EXCEPT !.cfg.skb = secrets + 1, !.at = "truncating"] \in Process
          BY <4>1 DEF Process, Configs
        <4>3. shell' = [shell EXCEPT ![p] = [shell[p] EXCEPT !.cfg.skb = secrets + 1, !.at = "truncating"]]
          BY <3>1 DEF Kept
        <4>4. shell' \in [Shell -> Process]
          BY <4>2, <4>3
        <4> QED
          BY <2>4, <3>1, <4>1, <4>4 DEF PullImage
      <3>2. CASE Ends(p) \/ GoTo(p, "finding")
        <4>1. shell' \in [Shell -> Process] /\ cached' \in BOOLEAN
          BY <2>4, <3>2 DEF PullImage
        <4>2. secrets' \in Secret
          BY <2>4 DEF PullImage
        <4> QED
          BY <2>4, <4>1, <4>2 DEF PullImage
      <3> QED
        BY <2>4, <3>1, <3>2 DEF PullImage
    <2>5. CASE Find(p)
      <3>1. \A place \in AtShell : [shell[p] EXCEPT !.id = container.id, !.at = place] \in Process
        BY DEF Process, Containers
      <3>2. shell' \in [Shell -> Process]
        BY <2>5, <3>1 DEF Find
      <3> QED
        BY <2>5, <3>2 DEF Find
    <2>6. CASE StopExisting(p)
      <3>1. CASE Refuse(p, "stop")
        BY <2>6, <3>1, RefuseType DEF StopExisting
      <3>2. CASE UNCHANGED refused /\ GoTo(p, "removing") /\ container' = [container EXCEPT !.state = "exited"]
        BY <2>6, <3>2 DEF StopExisting, Containers
      <3> QED
        BY <2>6, <3>1, <3>2 DEF StopExisting
    <2>7. CASE RemoveExisting(p)
      <3>1. CASE Refuse(p, "remove")
        BY <2>7, <3>1, RefuseType DEF RemoveExisting
      <3>2. CASE UNCHANGED refused /\ GoTo(p, "making") /\ container' = NoContainer
        BY <2>7, <3>2 DEF RemoveExisting
      <3> QED
        BY <2>7, <3>1, <3>2 DEF RemoveExisting
    <2>8. CASE ContainerCreate(p)
      <3>1. CASE Refuse(p, "name conflict")
        <4>1. made' \in 0 .. MaxMade
          BY <2>8 DEF ContainerCreate
        <4> QED
          BY <2>8, <3>1, <4>1, RefuseType DEF ContainerCreate
      <3>2. CASE ~Refuse(p, "name conflict")
        <4>1. made + 1 \in 0 .. MaxMade
          BY <2>8 DEF ContainerCreate
        <4>2. [shell[p] EXCEPT !.at = "running", !.id = made + 1] \in Process
          BY <4>1 DEF Process
        <4>3. shell' = [shell EXCEPT ![p] = [shell[p] EXCEPT !.at = "running", !.id = made + 1]]
          BY <2>8, <3>2 DEF ContainerCreate
        <4>4. shell[p].cfg.jwt \in Secret /\ shell[p].cfg.skb \in Secret
          BY DEF Process, Configs
        <4>5. container' \in Containers
          <5>1. [state |-> "created", id |-> made + 1, jwt |-> shell[p].cfg.jwt, skb |-> shell[p].cfg.skb] \in Containers
            BY <4>1, <4>4 DEF Containers
          <5> QED
            BY <2>8, <3>2, <5>1 DEF ContainerCreate
        <4>6. shell' \in [Shell -> Process]
          BY <4>2, <4>3
        <4> QED
          BY <2>8, <3>2, <4>1, <4>5, <4>6 DEF ContainerCreate
      <3> QED
        BY <3>1, <3>2
    <2>9. CASE ContainerStart(p)
      <3>1. CASE Refuse(p, "start")
        BY <2>9, <3>1, RefuseType DEF ContainerStart
      <3>2. CASE UNCHANGED refused /\ GoTo(p, "waiting") /\ container' = [container EXCEPT !.state = "running"]
        BY <2>9, <3>2 DEF ContainerStart, Containers
      <3> QED
        BY <2>9, <3>1, <3>2 DEF ContainerStart
    <2>10. CASE Waited(p)
      BY <2>10 DEF Waited
    <2>11. CASE ContainerStop(p)
      BY <2>11 DEF ContainerStop, Containers
    <2>12. CASE ContainerRemove(p)
      BY <2>12 DEF ContainerRemove
    <2>13. CASE PullServerImage(p)
      BY <2>13 DEF PullServerImage
    <2> QED
      BY <1>2, <2>1, <2>2, <2>3, <2>4, <2>5, <2>6, <2>7, <2>8, <2>9, <2>10, <2>11, <2>12, <2>13
      DEF Continue
  <1>3. ASSUME NEW p \in Shell, Kill(p)
        PROVE  TypeOK'
    BY <1>3, GoOnType DEF Kill
  <1>4. CASE DeleteFile
    BY <1>4 DEF DeleteFile
  <1>5. CASE ServerDies \/ Restarts \/ StoppedByHand
    BY <1>5 DEF ServerDies, Restarts, StoppedByHand, Docker, Containers
  <1> QED
    BY <1>1, <1>2, <1>3, <1>4, <1>5 DEF Next

LEMMA TypeStutter == ASSUME TypeOK, UNCHANGED vars PROVE TypeOK'
  BY DEF TypeOK, vars

LEMMA TypeInit == ASSUME Init PROVE TypeOK
  <1>1. 0 \in Secret /\ 1 \in Secret
    BY ConstAssumption DEF Secret
  <1>2. file \in Configs
    BY <1>1, ConstantType, ConfigType DEF Init
  <1>3. shell \in [Shell -> Process]
    BY ConstantType DEF Init
  <1>4. 0 \in 0 .. MaxMade /\ 0 \in 0 .. MaxUpsets /\ 0 \in 0 .. MaxCalls
    BY ConstAssumption
  <1> QED
    BY <1>1, <1>2, <1>3, <1>4, ConstantType DEF Init, TypeOK

\* Every file, container and command keeps its type.
THEOREM TypeCorrect == Spec => []TypeOK
  BY TypeInit, TypeStep, TypeStutter, PTL DEF Spec

-----------------------------------------------------------------------------
(* The keys in the file *)

\* The configs that are under way match too.
KeysOK ==
  /\ KeysMatch
  /\ \A p \in Shell : shell[p].cfg.keys \in {0, shell[p].cfg.jwt}

\* Commands that neither read nor write the file.
LEMMA CfgKept ==
  ASSUME TypeOK, NEW p \in Shell,
         \/ Stop(p) \/ Upgrade(p) \/ IsRunning(p) \/ Find(p) \/ StopExisting(p) \/ RemoveExisting(p)
         \/ ContainerCreate(p) \/ ContainerStart(p) \/ Waited(p) \/ ContainerStop(p) \/ ContainerRemove(p)
         \/ PullServerImage(p) \/ Kill(p)
  PROVE  UNCHANGED file /\ \A q \in Shell : shell'[q].cfg \in {shell[q].cfg, Absent}
  <1> DEFINE Kept1 == \A q \in Shell : shell'[q].cfg \in {shell[q].cfg, Absent}
  <1>1. /\ Ends(p) \/ UNCHANGED shell => Kept1
        /\ \A place \in AtShell : GoTo(p, place) => Kept1
        /\ \A place \in AtShell, cmd \in {"stop", "upgrade"} : Runs(p, place, cmd, Absent) => Kept1
    <2>1. shell \in [Shell -> Process]
      BY DEF TypeOK
    <2>2. Ends(p) \/ UNCHANGED shell => Kept1
      BY <2>1 DEF Ends, Idle
    <2>3. ASSUME NEW place \in AtShell, GoTo(p, place)
          PROVE  Kept1
      BY <2>1, <2>3 DEF GoTo, Process
    <2>4. ASSUME NEW place \in AtShell, NEW cmd \in {"stop", "upgrade"}, Runs(p, place, cmd, Absent)
          PROVE  Kept1
      BY <2>1, <2>4 DEF Runs, Idle
    <2> QED
      BY <2>2, <2>3, <2>4
  <1>2. CASE Stop(p) \/ Upgrade(p)
    BY <1>1, <1>2 DEF Stop, Upgrade, AtShell
  <1>3. CASE Find(p)
    BY <1>3 DEF Find, TypeOK, Process
  <1>4. CASE StopExisting(p) \/ RemoveExisting(p) \/ ContainerStart(p)
    BY <1>1, <1>4 DEF StopExisting, RemoveExisting, ContainerStart, Refuse, AtShell
  <1>5. CASE ContainerCreate(p)
    <2>1. CASE Ends(p)
      BY <1>1, <1>5, <2>1 DEF ContainerCreate
    <2>2. CASE shell' = [shell EXCEPT ![p].at = "running", ![p].id = made + 1]
      BY <1>5, <2>2 DEF ContainerCreate, TypeOK, Process
    <2> QED
      BY <1>5, <2>1, <2>2 DEF ContainerCreate, Refuse
  <1>6. CASE IsRunning(p) \/ Waited(p) \/ ContainerStop(p) \/ ContainerRemove(p)
    BY <1>1, <1>6 DEF IsRunning, Waited, ContainerStop, ContainerRemove, AtShell
  <1>7. CASE PullServerImage(p) \/ Kill(p)
    BY <1>1, <1>7 DEF PullServerImage, Kill, AtShell
  <1> QED
    BY <1>2, <1>3, <1>4, <1>5, <1>6, <1>7

LEMMA KeysStep ==
  ASSUME TypeOK, KeysOK, Next
  PROVE  KeysOK'
  <1> USE DEF KeysOK, KeysMatch
  <1>1. /\ Empty.keys = 0 /\ Absent.keys = 0 /\ Garbled.keys = 0
        /\ Idle.cfg = Absent
    BY DEF Empty, Absent, Garbled, Config, Idle
  <1>2. ASSUME NEW p \in Shell, InitCmd(p)
        PROVE  KeysOK'
    <2>1. UNCHANGED file
      BY <1>2 DEF InitCmd
    <2>2. UNCHANGED shell \/ Runs(p, "truncating", "init", Config(secrets + 1, secrets + 2, 0))
      BY <1>2 DEF InitCmd
    <2>3. Config(secrets + 1, secrets + 2, 0).keys = 0
      BY DEF Config
    <2>4. ASSUME NEW c, c.keys = 0, Runs(p, "truncating", "init", c)
          PROVE  \A q \in Shell : shell'[q].cfg.keys \in {0, shell'[q].cfg.jwt}
      BY <2>4 DEF Runs, TypeOK, Process, Idle
    <2> QED
      BY <2>1, <2>2, <2>3, <2>4
  <1>3. ASSUME NEW p \in Shell, KeysGenerate(p)
        PROVE  KeysOK'
    <2>1. CASE UNCHANGED <<file, shell>>
      BY <2>1
    <2>2. CASE UNCHANGED file /\ Runs(p, "truncating", "keys", [file EXCEPT !.keys = file.jwt])
      <3>1. [file EXCEPT !.keys = file.jwt].keys = file.jwt /\ [file EXCEPT !.keys = file.jwt].jwt = file.jwt
        BY DEF TypeOK, Configs
      <3> QED
        BY <2>2, <3>1 DEF Runs, TypeOK, Process, Idle
    <2> QED
      BY <1>3, <2>1, <2>2 DEF KeysGenerate
  <1>4. ASSUME NEW p \in Shell, Start(p)
        PROVE  KeysOK'
    <2>1. UNCHANGED file /\ (UNCHANGED shell \/ Runs(p, "checking", "start", file))
      BY <1>4 DEF Start
    <2> QED
      BY <2>1 DEF Runs, TypeOK, Process, Idle
  <1>5. ASSUME NEW p \in Shell, Truncate(p)
        PROVE  KeysOK'
    <2>1. file' \in {file, Empty} /\ (GoTo(p, "encoding") \/ Ends(p))
      BY <1>5 DEF Truncate
    <2> QED
      BY <1>1, <2>1 DEF GoTo, Ends, TypeOK, Process
  <1>6. ASSUME NEW p \in Shell, Encode(p)
        PROVE  KeysOK'
    <2>1. file' \in {file, shell[p].cfg, Garbled} /\ (GoTo(p, "finding") \/ Ends(p))
      BY <1>6 DEF Encode, Saved
    <2> QED
      BY <1>1, <2>1 DEF GoTo, Ends, TypeOK, Process
  <1>7. ASSUME NEW p \in Shell, PullImage(p)
        PROVE  KeysOK'
    <2>1. UNCHANGED file
      BY <1>7 DEF PullImage
    <2>2. CASE Ends(p) \/ GoTo(p, "finding")
      BY <1>1, <2>1, <2>2 DEF Ends, GoTo, TypeOK, Process
    <2>3. CASE shell' = [shell EXCEPT ![p].cfg.skb = secrets + 1, ![p].at = Kept(p)]
      <3>1. \A q \in Shell : /\ shell'[q].cfg.keys = shell[q].cfg.keys
                             /\ shell'[q].cfg.jwt = shell[q].cfg.jwt
        BY <2>3 DEF TypeOK, Process, Configs
      <3> QED
        BY <2>1, <3>1
    <2> QED
      BY <1>7, <2>2, <2>3 DEF PullImage
  <1>8. ASSUME UNCHANGED file, \A q \in Shell : shell'[q].cfg \in {shell[q].cfg, Absent}
        PROVE  KeysOK'
    BY <1>1, <1>8
  <1>9. CASE DeleteFile
    BY <1>1, <1>9 DEF DeleteFile
  <1>10. CASE ServerDies \/ Restarts \/ StoppedByHand
    BY <1>10 DEF ServerDies, Restarts, StoppedByHand, Docker
  <1>11. ASSUME NEW p \in Shell, Command(p) \/ Continue(p) \/ Kill(p)
         PROVE  KeysOK'
    BY <1>2, <1>3, <1>4, <1>5, <1>6, <1>7, <1>8, <1>11, CfgKept DEF Command, Continue
  <1> QED
    BY <1>9, <1>10, <1>11 DEF Next

\* The keys in konet.config.toml are never signed with another secret than the one
\* beside them, whatever commands overlap or are killed (keys.go 41-52).
THEOREM KeysCorrect == Spec => []KeysMatch
  <1>1. Init => KeysOK
    BY DEF Init, KeysOK, KeysMatch, Config, Absent, Empty, Idle
  <1>2. TypeOK /\ KeysOK /\ [Next]_vars => KeysOK'
    <2>1. KeysOK /\ UNCHANGED vars => KeysOK'
      BY DEF KeysOK, KeysMatch, vars
    <2> QED
      BY <2>1, KeysStep
  <1>3. KeysOK => KeysMatch
    BY DEF KeysOK
  <1> QED
    BY <1>1, <1>2, <1>3, TypeCorrect, PTL DEF Spec

-----------------------------------------------------------------------------
(* Where a command is after a step, and with what *)

LEMMA NoneFacts == /\ NoContainer.state = "none" /\ NoContainer.id = 0
                   /\ Idle.at = "idle" /\ Absent.skb = 0 /\ Empty.skb = 0
                   /\ Empty.is = "toml" /\ Garbled.is = "garbled"
  BY DEF NoContainer, Idle, Absent, Empty, Garbled, Config

LEMMA EndsAt ==
  ASSUME TypeOK, NEW p \in Shell, Ends(p)
  PROVE  shell'[p].at = "idle"
  BY DEF Ends, Idle, TypeOK

LEMMA GoesTo ==
  ASSUME TypeOK, NEW p \in Shell, NEW place, GoTo(p, place)
  PROVE  /\ shell'[p].at = place /\ shell'[p].cmd = shell[p].cmd
         /\ shell'[p].cfg = shell[p].cfg /\ shell'[p].id = shell[p].id
  BY DEF GoTo, TypeOK, Process

LEMMA RunsAt ==
  ASSUME TypeOK, NEW p \in Shell, NEW place, NEW cmd, NEW cfg, Runs(p, place, cmd, cfg)
  PROVE  shell'[p].at = place /\ shell'[p].cmd = cmd /\ shell'[p].cfg = cfg
  BY DEF Runs, Idle, TypeOK

LEMMA GivenSecret ==
  ASSUME TypeOK, NEW p \in Shell, shell' = [shell EXCEPT ![p].cfg.skb = secrets + 1, ![p].at = Kept(p)]
  PROVE  /\ shell'[p].at = "truncating" /\ shell'[p].cfg.is = shell[p].cfg.is
         /\ shell'[p].cfg.skb # 0
  <1>1. secrets + 1 # 0
    <2>1. secrets \in Secret
      BY DEF TypeOK
    <2> QED
      BY <2>1, ConstAssumption DEF Secret
  <1> QED
    BY <1>1 DEF Kept, TypeOK, Process, Configs

LEMMA MadeAt ==
  ASSUME TypeOK, NEW p \in Shell, shell' = [shell EXCEPT ![p].at = "running", ![p].id = made + 1]
  PROVE  shell'[p].at = "running" /\ shell'[p].id # 0 /\ shell'[p].cfg = shell[p].cfg
  <1>1. made + 1 # 0
    <2>1. made \in 0 .. MaxMade
      BY DEF TypeOK
    <2> QED
      BY <2>1, ConstAssumption
  <1> QED
    BY <1>1 DEF TypeOK, Process

LEMMA FoundAt ==
  ASSUME TypeOK, NEW p \in Shell, Find(p)
  PROVE  /\ shell'[p].cfg = shell[p].cfg /\ shell'[p].id = container.id
         /\ shell'[p].at \in {"stopping", "removing", "making"}
         /\ shell'[p].at = "stopping" => container.state = "running"
  BY DEF Find, Running, TypeOK, Process

-----------------------------------------------------------------------------
(* Commands that run alone *)

\* No command overlapped another so far, or this one is undisturbed.
Sole(p) == ~raced \/ p \in alone

Alone == \A p, q \in Shell : Sole(p) /\ shell[p].at # "idle" /\ shell[q].at # "idle" => p = q

\* What a command that begins, and one that goes on or is killed, does to the others.
LEMMA BeginsAlone ==
  ASSUME TypeOK, NEW p \in Shell, Command(p)
  PROVE  Begin(p) /\ \A q \in Shell \ {p} : shell'[q] = shell[q]
  <1>1. /\ UNCHANGED shell => \A q \in Shell \ {p} : shell'[q] = shell[q]
        /\ \A place, cmd, cfg : Runs(p, place, cmd, cfg) => \A q \in Shell \ {p} : shell'[q] = shell[q]
    BY DEF Runs, TypeOK
  <1>2. CASE InitCmd(p) \/ KeysGenerate(p)
    BY <1>1, <1>2 DEF InitCmd, KeysGenerate
  <1>3. CASE Start(p) \/ Stop(p) \/ Upgrade(p)
    BY <1>1, <1>3 DEF Start, Stop, Upgrade
  <1> QED
    BY <1>2, <1>3 DEF Command

LEMMA GoesOnAlone ==
  ASSUME TypeOK, NEW p \in Shell, Continue(p) \/ Kill(p)
  PROVE  shell[p].at # "idle" /\ UNCHANGED raced /\ alone' \subseteq alone /\ \A q \in Shell \ {p} : shell'[q] = shell[q]
  <1> DEFINE Others == \A q \in Shell \ {p} : shell'[q] = shell[q]
  <1>1. (Ends(p) => Others) /\ \A place : GoTo(p, place) => Others
    BY DEF Ends, GoTo, TypeOK
  <1>2. CASE Truncate(p) \/ Encode(p) \/ IsRunning(p)
    BY <1>1, <1>2 DEF Truncate, Encode, IsRunning
  <1>3. CASE PullImage(p) \/ Find(p)
    BY <1>1, <1>3 DEF PullImage, Find, TypeOK
  <1>4. CASE StopExisting(p) \/ RemoveExisting(p)
    BY <1>1, <1>4 DEF StopExisting, RemoveExisting, Refuse
  <1>5. CASE ContainerCreate(p) \/ ContainerStart(p) \/ Waited(p)
    BY <1>1, <1>5 DEF ContainerCreate, ContainerStart, Waited, Refuse, TypeOK
  <1>6. CASE ContainerStop(p) \/ ContainerRemove(p) \/ PullServerImage(p) \/ Kill(p)
    BY <1>1, <1>6 DEF ContainerStop, ContainerRemove, PullServerImage, Kill
  <1> QED
    BY <1>2, <1>3, <1>4, <1>5, <1>6 DEF Continue

LEMMA EnvironmentAlone ==
  ASSUME DeleteFile \/ ServerDies \/ Restarts \/ StoppedByHand
  PROVE  UNCHANGED <<shell, raced, refused>> /\ alone' = {}
  BY DEF DeleteFile, ServerDies, Restarts, StoppedByHand, Docker

LEMMA AloneStep ==
  ASSUME TypeOK, Alone, [Next]_vars
  PROVE  Alone'
  <1>1. ASSUME NEW p \in Shell, Command(p)
        PROVE  Alone'
    <2>1. \A q \in Shell : Sole(q)' => \A t \in Shell \ {p} : shell[t].at = "idle"
      BY <1>1, BeginsAlone DEF Begin, Sole
    <2> QED
      BY <1>1, <2>1, BeginsAlone DEF Alone
  <1>2. ASSUME NEW p \in Shell, Continue(p) \/ Kill(p)
        PROVE  Alone'
    BY <1>2, GoesOnAlone DEF Alone, Sole
  <1>3. CASE DeleteFile \/ ServerDies \/ Restarts \/ StoppedByHand
    BY <1>3, EnvironmentAlone DEF Alone, Sole
  <1>4. CASE UNCHANGED vars
    BY <1>4 DEF Alone, Sole, vars
  <1> QED
    BY <1>1, <1>2, <1>3, <1>4 DEF Next

-----------------------------------------------------------------------------
(* The name of the container *)

NameOK ==
  /\ NameIsFree
  /\ \A p \in Shell : Sole(p) /\ shell[p].at = "making" => container.state = "none"

\* Only a start whose name was taken has its conflict remembered.
LEMMA RefusedFor ==
  ASSUME NEW p, NEW why, Refuse(p, why)
  PROVE  \A r \in refused' : r \in refused \/ (r.why = why /\ (p \in alone \/ r.how = "disturbed"))
  BY DEF Refuse

\* While an undisturbed command goes on, no other creates a container.
LEMMA NotMaking ==
  ASSUME TypeOK, Alone, NEW p \in Shell, Continue(p) \/ Kill(p), NEW q \in Shell \ {p}, Sole(q)'
  PROVE  shell'[q].at # "making"
  <1>1. Sole(q)
    BY GoesOnAlone DEF Sole
  <1>2. shell[q].at = "idle"
    BY <1>1, GoesOnAlone DEF Alone
  <1> QED
    BY <1>2, GoesOnAlone

LEMMA NameStep ==
  ASSUME TypeOK, Alone, NameOK, [Next]_vars
  PROVE  NameOK'
  <1> USE DEF NameOK, NameIsFree
  <1>1. ASSUME NEW p \in Shell, Command(p)
        PROVE  NameOK'
    <2> DEFINE Elsewhere == shell'[p].at = "making" => shell[p].at = "making"
    <2>1. /\ UNCHANGED shell => Elsewhere
          /\ \A place, cmd, cfg : place # "making" /\ Runs(p, place, cmd, cfg) => Elsewhere
      BY DEF Runs, TypeOK, Process, Idle
    <2>2. CASE InitCmd(p) \/ KeysGenerate(p)
      <3>1. Elsewhere /\ UNCHANGED <<container, refused>>
        BY <2>1, <2>2 DEF InitCmd, KeysGenerate
      <3> QED
        BY <1>1, <3>1, BeginsAlone DEF Begin, Sole
    <2>3. CASE Start(p) \/ Stop(p) \/ Upgrade(p)
      <3>1. Elsewhere /\ UNCHANGED <<container, refused>>
        BY <2>1, <2>3 DEF Start, Stop, Upgrade
      <3> QED
        BY <1>1, <3>1, BeginsAlone DEF Begin, Sole
    <2> QED
      BY <1>1, <2>2, <2>3 DEF Command
  <1>2. ASSUME NEW p \in Shell, Continue(p) \/ Kill(p)
        PROVE  NameOK'
    <2> DEFINE Elsewhere == shell'[p].at # "making"
               Same == \A c \in refused' : c \in refused \/ c.why # "name conflict"
    <2>1. (Ends(p) => Elsewhere) /\ \A place : place # "making" /\ GoTo(p, place) => Elsewhere
      <3>1. shell \in [Shell -> Process] /\ Idle.at # "making"
        BY DEF TypeOK, Idle
      <3> QED
        BY <3>1 DEF Ends, GoTo, Process
    <2>2. \A why : why # "name conflict" /\ Refuse(p, why) => Elsewhere /\ Same
      BY <2>1, RefusedFor DEF Refuse
    <2>3. Elsewhere /\ Same => NameOK'
      <3> SUFFICES ASSUME Elsewhere, Same
                   PROVE  NameOK'
        OBVIOUS
      <3>1. NameIsFree'
        <4>1. \A r \in refused' : r.why = "name conflict" => r \in refused
          OBVIOUS
        <4>2. raced' = raced
          BY <1>2, GoesOnAlone
        <4> QED
          BY <4>1, <4>2
      <3>2. \A q \in Shell : ~(Sole(q)' /\ shell'[q].at = "making")
        BY <1>2, NotMaking
      <3> QED
        BY <3>1, <3>2
    <2>13. UNCHANGED refused => Same /\ NameIsFree'
      <3>1. raced' = raced
        BY <1>2, GoesOnAlone
      <3> QED
        BY <3>1
    <2> HIDE DEF Elsewhere, Same
    <2>4. CASE Truncate(p) \/ Encode(p) \/ IsRunning(p)
      BY <2>1, <2>3, <2>4, <2>13 DEF Truncate, Encode, IsRunning
    <2>5. CASE PullImage(p)
      <3>1. shell' = [shell EXCEPT ![p].cfg.skb = secrets + 1, ![p].at = Kept(p)] => Elsewhere
        BY GivenSecret DEF Elsewhere
      <3> QED
        BY <2>1, <2>3, <2>5, <2>13, <3>1 DEF PullImage
    <2>6. CASE Find(p)
      <3>1. UNCHANGED <<container, refused>> /\ (shell'[p].at = "making" => container.state = "none")
        BY <2>6 DEF Find, Found, TypeOK, Process
      <3>2. \A q \in Shell \ {p} : ~(Sole(q)' /\ shell'[q].at = "making")
        BY <1>2, NotMaking
      <3>3. NameIsFree'
        BY <2>13, <3>1
      <3> QED
        BY <3>1, <3>2, <3>3
    <2>7. CASE StopExisting(p)
      BY <2>1, <2>2, <2>3, <2>7, <2>13 DEF StopExisting
    <2>8. CASE RemoveExisting(p)
      <3>1. CASE Refuse(p, "remove")
        BY <2>2, <2>3, <3>1
      <3>2. CASE container' = NoContainer /\ UNCHANGED refused
        <4>1. container'.state = "none"
          BY <3>2 DEF NoContainer
        <4>2. NameIsFree' /\ \A q \in Shell : Sole(q)' /\ shell'[q].at = "making" => q = p
          BY <1>2, <2>13, <3>2, NotMaking
        <4> QED
          BY <4>1, <4>2
      <3> QED
        BY <2>8, <3>1, <3>2 DEF RemoveExisting
    <2>9. CASE ContainerCreate(p)
      <3>1. CASE container.state = "none"
        <4>1. shell' = [shell EXCEPT ![p].at = "running", ![p].id = made + 1] => Elsewhere
          BY DEF Elsewhere, TypeOK, Process
        <4> QED
          BY <2>3, <2>9, <2>13, <3>1, <4>1 DEF ContainerCreate
      <3>2. CASE container.state # "none"
        <4>1. ~Sole(p) /\ Refuse(p, "name conflict")
          BY <2>9, <3>2 DEF ContainerCreate
        <4>2. raced /\ \A r \in refused' : r \in refused \/ r.how = "disturbed"
          BY <4>1, RefusedFor DEF Sole
        <4>3. NameIsFree'
          BY <1>2, <4>2, GoesOnAlone
        <4> QED
          BY <1>2, <2>1, <4>1, <4>3, GoesOnAlone DEF Refuse, Sole, Elsewhere
      <3> QED
        BY <3>1, <3>2
    <2>10. CASE ContainerStart(p) \/ Waited(p)
      BY <2>1, <2>2, <2>3, <2>10, <2>13 DEF ContainerStart, Waited
    <2>11. CASE ContainerStop(p) \/ ContainerRemove(p)
      BY <2>1, <2>3, <2>11, <2>13 DEF ContainerStop, ContainerRemove
    <2>12. CASE PullServerImage(p) \/ Kill(p)
      BY <2>1, <2>3, <2>12, <2>13 DEF PullServerImage, Kill
    <2> QED
      BY <1>2, <2>4, <2>5, <2>6, <2>7, <2>8, <2>9, <2>10, <2>11, <2>12 DEF Continue
  <1>3. CASE DeleteFile
    BY <1>3 DEF DeleteFile, Sole
  <1>4. CASE ServerDies \/ Restarts \/ StoppedByHand
    <2>1. container.state # "none"
      BY <1>4 DEF ServerDies, Restarts, StoppedByHand, Docker
    <2>2. shell' = shell /\ raced' = raced /\ refused' = refused /\ alone' = {}
      BY <1>4, EnvironmentAlone
    <2> QED
      BY <2>1, <2>2 DEF Sole
  <1>5. CASE UNCHANGED vars
    BY <1>5 DEF vars, Sole
  <1> QED
    BY <1>1, <1>2, <1>3, <1>4, <1>5 DEF Next

\* A start finds the name of its container free, whatever a run that crashed, or was
\* killed or stopped outside the CLI, left behind (docker.go 144-148): as long as no
\* two commands overlapped, and after they did, if it runs alone.
THEOREM NameCorrect == Spec => []NameIsFree
  <1>1. Init => Alone /\ NameOK
    BY DEF Init, Alone, NameOK, NameIsFree, Idle
  <1>2. NameOK => NameIsFree
    BY DEF NameOK
  <1> QED
    BY <1>1, <1>2, AloneStep, NameStep, TypeCorrect, PTL DEF Spec

-----------------------------------------------------------------------------
(* The secrets of the container *)

Match(c) == container = NoContainer \/ (container.jwt = c.jwt /\ container.skb = c.skb)

\* A start after it has made sure of a secret_key_base.
Equipped == {"finding", "stopping", "removing", "making", "running", "waiting"}

\* What a container, the file and a command hold, whoever else runs.
ContainerOK ==
  /\ container.state = "none" => container = NoContainer
  /\ container # NoContainer => container.skb # 0 /\ container.id # 0

FileOK == file.is = "absent" => file.skb = 0

Fit(c) ==
  /\ c.at \in Equipped => c.cfg.skb # 0
  /\ c.at \in {"truncating", "encoding"} /\ c.cmd = "start" => c.cfg.skb # 0
  /\ c.at \in {"stopping", "running"} => c.id # 0
  /\ c.at \in {"checking", "pulling", "truncating", "encoding"} => c.cfg.is # "absent"

HeldOK == ContainerOK /\ FileOK /\ \A p \in Shell : Fit(shell[p])

\* How the file, the container and the one command under way agree.
Agrees(c) ==
  /\ c.at \in {"truncating", "encoding"} => Match(c.cfg)
  /\ c.at = "encoding" => file = Empty
  /\ c.at \in Equipped \union {"checking", "pulling"} => c.cfg.jwt = file.jwt /\ c.cfg.skb = file.skb

AgreeOK ==
  Undisturbed =>
    /\ \A p \in Shell : Agrees(shell[p])
    /\ (\A p \in Shell : shell[p].at # "encoding") => Match(file)

LEMMA HeldStep ==
  ASSUME TypeOK, HeldOK, [Next]_vars
  PROVE  HeldOK'
  <1>1. ASSUME NEW p \in Shell, Command(p)
        PROVE  HeldOK'
    <2>1. \A q \in Shell \ {p} : shell'[q] = shell[q]
      BY <1>1, BeginsAlone
    <2>2. ContainerOK' /\ FileOK'
      BY <1>1 DEF Command, InitCmd, KeysGenerate, Start, Stop, Upgrade, HeldOK, ContainerOK, FileOK
    <2>3. Fit(shell'[p])
      <3>1. ASSUME NEW cmd \in {"init", "keys"}, NEW c, c.is = "toml", Runs(p, "truncating", cmd, c)
            PROVE  Fit(shell'[p])
        BY <3>1, RunsAt DEF Fit, Equipped
      <3>2. CASE UNCHANGED shell
        BY <3>2 DEF HeldOK
      <3>3. CASE Runs(p, "truncating", "init", Config(secrets + 1, secrets + 2, 0))
        <4>1. Config(secrets + 1, secrets + 2, 0).is = "toml"
          BY DEF Config
        <4> QED
          BY <3>1, <3>3, <4>1
      <3>4. CASE file.is = "toml" /\ Runs(p, "truncating", "keys", [file EXCEPT !.keys = file.jwt])
        <4>1. [file EXCEPT !.keys = file.jwt].is = "toml"
          BY <3>4 DEF TypeOK, Configs
        <4> QED
          BY <3>1, <3>4, <4>1
      <3>5. CASE file.is = "toml" /\ Runs(p, "checking", "start", file)
        BY <3>5, RunsAt DEF Fit, Equipped
      <3>6. CASE Runs(p, "halting", "stop", Absent) \/ Runs(p, "updating", "upgrade", Absent)
        BY <3>6, RunsAt DEF Fit, Equipped
      <3> QED
        BY <1>1, <3>2, <3>3, <3>4, <3>5, <3>6
        DEF Command, InitCmd, KeysGenerate, Start, Stop, Upgrade, Loads
    <2> QED
      BY <2>1, <2>2, <2>3 DEF HeldOK
  <1>2. ASSUME NEW p \in Shell, Continue(p) \/ Kill(p)
        PROVE  HeldOK'
    <2>1. ASSUME Fit(shell'[p]), ContainerOK', FileOK'
          PROVE  HeldOK'
      BY <1>2, <2>1, GoesOnAlone DEF HeldOK
    <2>2. Fit(shell[p]) /\ ContainerOK /\ FileOK
      BY DEF HeldOK
    <2>3. UNCHANGED container => ContainerOK'
      BY <2>2 DEF ContainerOK
    <2>4. UNCHANGED file => FileOK'
      BY <2>2 DEF FileOK
    <2>5. Ends(p) => Fit(shell'[p])
      BY EndsAt DEF Fit, Equipped
    <2>6. CASE Truncate(p)
      <3>1. Fit(shell'[p])
        BY <2>2, <2>5, <2>6, GoesTo DEF Truncate, Fit, Equipped
      <3> QED
        BY <2>1, <2>3, <2>4, <2>6, <3>1, NoneFacts DEF Truncate, FileOK
    <2>7. CASE Encode(p)
      <3>2. ASSUME shell[p].cmd = "start", GoTo(p, "finding")
            PROVE  Fit(shell'[p])
        BY <2>2, <2>7, <3>2, GoesTo DEF Encode, Fit, Equipped
      <3>3. Fit(shell'[p])
        BY <2>5, <2>7, <3>2 DEF Encode
      <3>4. UNCHANGED file \/ file'.is # "absent"
        BY <2>2, <2>7, NoneFacts DEF Encode, Saved, Fit
      <3> QED
        BY <2>1, <2>3, <2>4, <2>7, <3>3, <3>4 DEF Encode, FileOK
    <2>8. CASE IsRunning(p)
      <3>1. GoTo(p, "pulling") => Fit(shell'[p])
        BY <2>2, <2>8, GoesTo DEF IsRunning, Fit, Equipped
      <3> QED
        BY <2>1, <2>3, <2>4, <2>5, <2>8, <3>1 DEF IsRunning
    <2>9. CASE PullImage(p)
      <3>1. UNCHANGED <<file, container>> /\ shell[p].at = "pulling"
        BY <2>9 DEF PullImage
      <3>2. ASSUME shell[p].cfg.skb # 0, GoTo(p, "finding")
            PROVE  Fit(shell'[p])
        BY <2>2, <3>2, GoesTo DEF Fit, Equipped
      <3>3. ASSUME shell' = [shell EXCEPT ![p].cfg.skb = secrets + 1, ![p].at = Kept(p)]
            PROVE  Fit(shell'[p])
        BY <2>2, <3>1, <3>3, GivenSecret DEF Fit, Equipped
      <3>4. Fit(shell'[p])
        BY <2>5, <2>9, <3>2, <3>3 DEF PullImage
      <3> QED
        BY <2>1, <2>3, <2>4, <3>1, <3>4
    <2>10. CASE Find(p)
      <3>1. UNCHANGED <<file, container>> /\ shell[p].at = "finding"
        BY <2>10 DEF Find
      <3>2. container.state = "running" => container.id # 0
        BY <2>2, NoneFacts DEF ContainerOK
      <3>3. Fit(shell'[p])
        BY <2>2, <2>10, <3>1, <3>2, FoundAt DEF Fit, Equipped
      <3> QED
        BY <2>1, <2>3, <2>4, <3>1, <3>3
    <2>11. CASE StopExisting(p)
      <3>1. UNCHANGED file /\ shell[p].at = "stopping" /\ shell[p].id # 0
        BY <2>2, <2>11 DEF StopExisting, Fit
      <3>2. Fit(shell'[p])
        BY <2>2, <2>5, <2>11, <3>1, GoesTo DEF StopExisting, Refuse, Fit, Equipped
      <3>3. ContainerOK'
        BY <2>2, <2>3, <2>11, <3>1, NoneFacts DEF StopExisting, Refuse, ContainerOK, TypeOK, Containers
      <3> QED
        BY <2>1, <2>4, <3>1, <3>2, <3>3
    <2>12. CASE RemoveExisting(p)
      <3>1. UNCHANGED file /\ shell[p].at = "removing"
        BY <2>12 DEF RemoveExisting
      <3>2. Fit(shell'[p])
        BY <2>2, <2>5, <2>12, <3>1, GoesTo DEF RemoveExisting, Refuse, Fit, Equipped
      <3>3. ContainerOK'
        BY <2>3, <2>12 DEF RemoveExisting, Refuse, ContainerOK
      <3> QED
        BY <2>1, <2>4, <3>1, <3>2, <3>3
    <2>13. CASE ContainerCreate(p)
      <3>1. UNCHANGED file /\ shell[p].at = "making" /\ shell[p].cfg.skb # 0
        BY <2>2, <2>13 DEF ContainerCreate, Fit, Equipped
      <3>2. CASE shell' = [shell EXCEPT ![p].at = "running", ![p].id = made + 1]
                 /\ container' = [state |-> "created", id |-> made + 1, jwt |-> shell[p].cfg.jwt, skb |-> shell[p].cfg.skb]
        <4>1. Fit(shell'[p])
          BY <3>1, <3>2, MadeAt DEF Fit, Equipped
        <4>2. made + 1 # 0
          <5>1. made \in 0 .. MaxMade
            BY DEF TypeOK
          <5> QED
            BY <5>1, ConstAssumption
        <4>3. ContainerOK'
          BY <3>1, <3>2, <4>2 DEF ContainerOK
        <4> QED
          BY <2>1, <2>4, <3>1, <4>1, <4>3
      <3>3. CASE Refuse(p, "name conflict")
        BY <2>1, <2>3, <2>4, <2>5, <3>1, <3>3 DEF Refuse
      <3> QED
        BY <2>13, <3>2, <3>3 DEF ContainerCreate
    <2>14. CASE ContainerStart(p)
      <3>1. UNCHANGED file /\ shell[p].at = "running" /\ shell[p].id # 0
        BY <2>2, <2>14 DEF ContainerStart, Fit
      <3>2. Fit(shell'[p])
        BY <2>2, <2>5, <2>14, <3>1, GoesTo DEF ContainerStart, Refuse, Fit, Equipped
      <3>3. ContainerOK'
        BY <2>2, <2>3, <2>14, <3>1, NoneFacts DEF ContainerStart, Refuse, ContainerOK, TypeOK, Containers
      <3> QED
        BY <2>1, <2>4, <3>1, <3>2, <3>3
    <2>15. CASE ContainerStop(p)
      <3>1. Fit(shell'[p])
        BY <2>5, <2>15, GoesTo DEF ContainerStop, Fit, Equipped
      <3>2. ContainerOK'
        BY <2>2, <2>3, <2>15 DEF ContainerStop, ContainerOK, TypeOK, Containers
      <3> QED
        BY <2>1, <2>4, <2>15, <3>1, <3>2 DEF ContainerStop
    <2>16. CASE ContainerRemove(p)
      <3>1. ContainerOK'
        BY <2>2, <2>16 DEF ContainerRemove, ContainerOK
      <3> QED
        BY <2>1, <2>4, <2>5, <2>16, <3>1 DEF ContainerRemove
    <2>17. CASE Waited(p) \/ PullServerImage(p) \/ Kill(p)
      BY <2>1, <2>3, <2>4, <2>5, <2>17 DEF Waited, PullServerImage, Kill
    <2> QED
      BY <1>2, <2>6, <2>7, <2>8, <2>9, <2>10, <2>11, <2>12, <2>13, <2>14, <2>15, <2>16, <2>17
      DEF Continue
  <1>3. CASE DeleteFile
    BY <1>3, NoneFacts DEF DeleteFile, HeldOK, FileOK, ContainerOK
  <1>4. CASE ServerDies \/ Restarts \/ StoppedByHand
    <2>1. /\ shell' = shell /\ file' = file /\ container.state # "none"
          /\ container'.state # "none" /\ container'.skb = container.skb /\ container'.id = container.id
      BY <1>4 DEF ServerDies, Restarts, StoppedByHand, Docker, TypeOK, Containers
    <2>2. container # NoContainer
      BY <2>1, NoneFacts
    <2> QED
      BY <2>1, <2>2 DEF HeldOK, FileOK, ContainerOK
  <1>5. CASE UNCHANGED vars
    BY <1>5 DEF vars, HeldOK, FileOK, ContainerOK
  <1> QED
    BY <1>1, <1>2, <1>3, <1>4, <1>5 DEF Next

LEMMA AgreeStep ==
  ASSUME TypeOK, Alone, HeldOK, AgreeOK, [Next]_vars
  PROVE  AgreeOK'
  <1>1. ASSUME NEW p \in Shell, Command(p)
        PROVE  AgreeOK'
    <2>1. UNCHANGED <<file, container, lost>>
      BY <1>1 DEF Command, InitCmd, KeysGenerate, Start, Stop, Upgrade
    <2> SUFFICES ASSUME Undisturbed'
                 PROVE  (\A q \in Shell : Agrees(shell[q]))' /\ Match(file)'
      BY DEF AgreeOK
    <2>2. Undisturbed /\ \A q \in Shell : shell[q].at = "idle"
      BY <1>1, <2>1, BeginsAlone DEF Begin, Undisturbed
    <2>3. Match(file) /\ Match(file)'
      BY <2>1, <2>2 DEF AgreeOK, Match
    <2>4. ASSUME Agrees(shell[p])'
          PROVE  (\A q \in Shell : Agrees(shell[q]))' /\ Match(file)'
      BY <1>1, <2>2, <2>3, <2>4, BeginsAlone DEF Agrees, Equipped
    <2>5. ASSUME NEW c, Match(c), NEW cmd, Runs(p, "truncating", cmd, c)
          PROVE  Agrees(shell[p])'
      BY <2>1, <2>5, RunsAt DEF Agrees, Match, Equipped
    <2>6. CASE UNCHANGED shell
      BY <2>2, <2>4, <2>6 DEF Agrees, Equipped
    <2>7. CASE file.is = "absent" /\ Runs(p, "truncating", "init", Config(secrets + 1, secrets + 2, 0))
      <3>1. container = NoContainer
        BY <2>3, <2>7 DEF Match, HeldOK, ContainerOK, FileOK
      <3> QED
        BY <2>4, <2>5, <2>7, <3>1 DEF Match
    <2>8. CASE Runs(p, "truncating", "keys", [file EXCEPT !.keys = file.jwt])
      <3>1. Match([file EXCEPT !.keys = file.jwt])
        BY <2>3 DEF Match, TypeOK, Configs
      <3> QED
        BY <2>4, <2>5, <2>8, <3>1
    <2>9. CASE Runs(p, "checking", "start", file)
      BY <2>1, <2>4, <2>9, RunsAt DEF Agrees, Equipped
    <2>10. CASE Runs(p, "halting", "stop", Absent) \/ Runs(p, "updating", "upgrade", Absent)
      BY <2>4, <2>10, RunsAt DEF Agrees, Equipped
    <2> QED
      BY <1>1, <2>6, <2>7, <2>8, <2>9, <2>10
      DEF Command, InitCmd, KeysGenerate, Start, Stop, Upgrade, Written
  <1>2. ASSUME NEW p \in Shell, Continue(p) \/ Kill(p)
        PROVE  AgreeOK'
    <2> SUFFICES ASSUME Undisturbed'
                 PROVE  AgreeOK'
      BY DEF AgreeOK
    <2>1. Undisturbed
      <3>1. ~lost
        <4>1. CASE Kill(p)
          BY <4>1 DEF Undisturbed, Kill
        <4>2. CASE ~Kill(p)
          <5>1. UNCHANGED lost \/ lost'
            BY <1>2, <4>2
            DEF Continue, Truncate, Encode, IsRunning, PullImage, Find, StopExisting, RemoveExisting,
                ContainerCreate, ContainerStart, Waited, ContainerStop, ContainerRemove, PullServerImage
          <5> QED
            BY <5>1 DEF Undisturbed
        <4> QED
          BY <4>1, <4>2
      <3>2. ~raced
        BY <1>2, GoesOnAlone DEF Undisturbed
      <3> QED
        BY <3>1, <3>2 DEF Undisturbed
    <2>2. \A q \in Shell \ {p} : shell[q].at = "idle" /\ shell'[q] = shell[q]
      BY <1>2, <2>1, GoesOnAlone DEF Alone, Sole, Undisturbed
    <2>3. Agrees(shell[p]) /\ (shell[p].at # "encoding" => Match(file))
      BY <2>1, <2>2 DEF AgreeOK
    <2>4. ASSUME Agrees(shell[p])', shell'[p].at # "encoding" => Match(file)'
          PROVE  AgreeOK'
      BY <2>2, <2>4 DEF AgreeOK, Agrees, Equipped
    <2>5. ASSUME UNCHANGED file, Ends(p), shell[p].at # "encoding",
                 container' = NoContainer \/ UNCHANGED container
                 \/ (container # NoContainer /\ container'.jwt = container.jwt /\ container'.skb = container.skb)
          PROVE  AgreeOK'
      BY <2>3, <2>4, <2>5, EndsAt DEF Agrees, Match, Equipped
    <2>6. ASSUME NEW from \in Equipped \union {"checking", "pulling", "halting"},
                 NEW place \in Equipped \union {"pulling", "clearing"},
                 UNCHANGED file, shell[p].at = from, shell'[p].at = place, shell'[p].cfg = shell[p].cfg,
                 place \in Equipped \union {"pulling"} => from \in Equipped \union {"checking", "pulling"},
                 container' = NoContainer \/ UNCHANGED container
                 \/ (container # NoContainer /\ container'.jwt = container.jwt /\ container'.skb = container.skb)
          PROVE  AgreeOK'
      BY <2>3, <2>4, <2>6 DEF Agrees, Match, Equipped
    <2>7. CASE Truncate(p)
      <3>1. CASE file' = Empty /\ GoTo(p, "encoding")
        <4>1. shell'[p].at = "encoding" /\ shell'[p].cfg = shell[p].cfg
          BY <3>1, GoesTo
        <4>2. UNCHANGED container /\ Match(shell[p].cfg)
          BY <2>3, <2>7 DEF Truncate, Agrees
        <4> QED
          BY <2>4, <3>1, <4>1, <4>2 DEF Agrees, Match, Equipped
      <3>2. CASE UNCHANGED file /\ Ends(p)
        BY <2>5, <2>7, <3>2 DEF Truncate
      <3> QED
        BY <2>7, <3>1, <3>2 DEF Truncate
    <2>8. CASE Encode(p)
      <3>1. file' = shell[p].cfg /\ UNCHANGED container /\ Match(shell[p].cfg)
        BY <2>3, <2>8 DEF Encode, Saved, Agrees, Undisturbed
      <3>2. Match(file)'
        BY <3>1 DEF Match
      <3>3. shell'[p].at = "idle" \/ (shell'[p].at = "finding" /\ shell'[p].cfg = shell[p].cfg)
        BY <2>8, EndsAt, GoesTo DEF Encode, Undisturbed
      <3> QED
        BY <2>4, <3>1, <3>2, <3>3 DEF Agrees, Equipped
    <2>9. CASE IsRunning(p)
      BY <2>5, <2>6, <2>9, GoesTo DEF IsRunning, Equipped
    <2>10. CASE PullImage(p)
      <3>1. UNCHANGED <<file, container>> /\ shell[p].at = "pulling"
        BY <2>10 DEF PullImage
      <3>2. CASE GoTo(p, "finding")
        BY <2>6, <3>1, <3>2, GoesTo DEF Equipped
      <3>3. CASE shell[p].cfg.skb = 0 /\ shell' = [shell EXCEPT ![p].cfg.skb = secrets + 1, ![p].at = Kept(p)]
        <4>1. container = NoContainer
          BY <2>3, <3>1, <3>3 DEF Agrees, Match, HeldOK, ContainerOK
        <4>2. shell'[p].at = "truncating"
          BY <3>3, GivenSecret
        <4> QED
          BY <2>4, <3>1, <4>1, <4>2 DEF Agrees, Match, Equipped
      <3> QED
        BY <2>5, <2>10, <3>1, <3>2, <3>3 DEF PullImage
    <2>11. CASE Find(p)
      BY <2>6, <2>11, FoundAt DEF Find, Equipped
    <2>12. CASE StopExisting(p)
      <3>1. shell[p].id # 0
        BY <2>12 DEF StopExisting, HeldOK, Fit
      <3>2. CASE container.id = shell[p].id /\ container' = [container EXCEPT !.state = "exited"] /\ GoTo(p, "removing")
        <4>1. container # NoContainer /\ container'.jwt = container.jwt /\ container'.skb = container.skb
          BY <3>1, <3>2, NoneFacts DEF TypeOK, Containers
        <4> QED
          BY <2>6, <2>12, <3>2, <4>1, GoesTo DEF StopExisting, Equipped
      <3> QED
        BY <2>5, <2>12, <3>2 DEF StopExisting, Refuse
    <2>13. CASE RemoveExisting(p)
      BY <2>5, <2>6, <2>13, GoesTo DEF RemoveExisting, Refuse, Equipped
    <2>14. CASE ContainerCreate(p)
      <3>1. CASE /\ container' = [state |-> "created", id |-> made + 1, jwt |-> shell[p].cfg.jwt, skb |-> shell[p].cfg.skb]
                 /\ shell' = [shell EXCEPT ![p].at = "running", ![p].id = made + 1]
        <4>1. UNCHANGED file /\ shell[p].at = "making"
          BY <2>14 DEF ContainerCreate
        <4>2. Match(file)'
          BY <2>3, <3>1, <4>1 DEF Agrees, Match, Equipped
        <4> QED
          BY <2>3, <2>4, <3>1, <4>1, <4>2, MadeAt DEF Agrees, Equipped
      <3> QED
        BY <2>5, <2>14, <3>1 DEF ContainerCreate, Refuse
    <2>15. CASE ContainerStart(p)
      <3>1. shell[p].id # 0
        BY <2>15 DEF ContainerStart, HeldOK, Fit
      <3>2. CASE container.id = shell[p].id /\ container' = [container EXCEPT !.state = "running"] /\ GoTo(p, "waiting")
        <4>1. container # NoContainer /\ container'.jwt = container.jwt /\ container'.skb = container.skb
          BY <3>1, <3>2, NoneFacts DEF TypeOK, Containers
        <4> QED
          BY <2>6, <2>15, <3>2, <4>1, GoesTo DEF ContainerStart, Equipped
      <3> QED
        BY <2>5, <2>15, <3>2 DEF ContainerStart, Refuse
    <2>16. CASE ContainerStop(p)
      <3>1. CASE container # NoContainer /\ container' = [container EXCEPT !.state = "exited"] /\ GoTo(p, "clearing")
        <4>1. container'.jwt = container.jwt /\ container'.skb = container.skb
          BY <3>1 DEF TypeOK, Containers
        <4> QED
          BY <2>6, <2>16, <3>1, <4>1, GoesTo DEF ContainerStop, Equipped
      <3> QED
        BY <2>5, <2>16, <3>1 DEF ContainerStop
    <2>17. CASE ContainerRemove(p)
      BY <2>5, <2>17 DEF ContainerRemove
    <2>18. CASE Waited(p) \/ PullServerImage(p)
      BY <2>5, <2>18 DEF Waited, PullServerImage
    <2>19. CASE Kill(p)
      BY <2>5, <2>19 DEF Kill, Undisturbed
    <2> QED
      BY <1>2, <2>7, <2>8, <2>9, <2>10, <2>11, <2>12, <2>13, <2>14, <2>15, <2>16, <2>17, <2>18, <2>19
      DEF Continue
  <1>3. CASE DeleteFile
    BY <1>3 DEF DeleteFile, AgreeOK, Undisturbed
  <1>4. CASE ServerDies \/ Restarts \/ StoppedByHand
    <2>1. /\ shell' = shell /\ file' = file /\ lost' = lost /\ raced' = raced /\ container.state # "none"
          /\ container'.jwt = container.jwt /\ container'.skb = container.skb
      BY <1>4 DEF ServerDies, Restarts, StoppedByHand, Docker, TypeOK, Containers
    <2>2. container # NoContainer
      BY <2>1, NoneFacts
    <2> QED
      BY <2>1, <2>2 DEF AgreeOK, Agrees, Match, Undisturbed
  <1>5. CASE UNCHANGED vars
    BY <1>5 DEF vars, AgreeOK, Agrees, Match, Undisturbed
  <1> QED
    BY <1>1, <1>2, <1>3, <1>4, <1>5 DEF Next

\* As long as commands run one after the other and no save is cut short, what is
\* left running has the secrets of the file: tokens and sessions survive every
\* stop and start (start.go 77-78, init.go 21-24).
THEOREM RunsCorrect == Spec => []RunsAsConfigured
  <1>1. Init => Alone /\ HeldOK /\ AgreeOK
    BY NoneFacts DEF Init, Alone, HeldOK, ContainerOK, FileOK, Fit, Equipped, AgreeOK, Agrees, Match, Config
  <1>2. AgreeOK => RunsAsConfigured
    BY DEF AgreeOK, RunsAsConfigured, AtRest, Match
  <1> QED
    BY <1>1, <1>2, AloneStep, HeldStep, AgreeStep, TypeCorrect, PTL DEF Spec

-----------------------------------------------------------------------------
(* A start that is left alone *)

\* What a command holds that began alone and was not disturbed since.
Settled(c) ==
  /\ c.at \in {"checking", "pulling", "truncating", "encoding"} => c.cfg.is = "toml"
  /\ c.at = "encoding" => file = Empty
  /\ c.at \in Equipped \union {"checking", "pulling"} => file = c.cfg /\ file.is = "toml"
  /\ c.at \in {"running", "waiting"} =>
       container.id = c.id /\ container.jwt = c.cfg.jwt /\ container.skb = c.cfg.skb
  /\ c.at = "waiting" => container.state = "running"

SettledOK == \A p \in alone : Settled(shell[p])

LEMMA SettledStep ==
  ASSUME TypeOK, Alone, SettledOK, [Next]_vars
  PROVE  SettledOK'
  <1>1. ASSUME NEW p \in Shell, Command(p)
        PROVE  SettledOK'
    <2>1. UNCHANGED <<file, container>> /\ alone' \subseteq {p} /\ shell[p].at = "idle"
      BY <1>1, BeginsAlone DEF Begin, Command, InitCmd, KeysGenerate, Start, Stop, Upgrade
    <2>2. ASSUME Settled(shell[p])'
          PROVE  SettledOK'
      BY <2>1, <2>2 DEF SettledOK
    <2>3. ASSUME NEW cmd, NEW c, c.is = "toml", Runs(p, "truncating", cmd, c)
          PROVE  Settled(shell[p])'
      BY <2>3, RunsAt DEF Settled, Equipped
    <2>4. CASE UNCHANGED shell
      BY <2>1, <2>2, <2>4 DEF Settled, Equipped
    <2>5. CASE Runs(p, "truncating", "init", Config(secrets + 1, secrets + 2, 0))
      <3>1. Config(secrets + 1, secrets + 2, 0).is = "toml"
        BY DEF Config
      <3> QED
        BY <2>2, <2>3, <2>5, <3>1
    <2>6. CASE file.is = "toml" /\ Runs(p, "truncating", "keys", [file EXCEPT !.keys = file.jwt])
      <3>1. [file EXCEPT !.keys = file.jwt].is = "toml"
        BY <2>6 DEF TypeOK, Configs
      <3> QED
        BY <2>2, <2>3, <2>6, <3>1
    <2>7. CASE file.is = "toml" /\ Runs(p, "checking", "start", file)
      BY <2>1, <2>2, <2>7, RunsAt DEF Settled, Equipped
    <2>8. CASE Runs(p, "halting", "stop", Absent) \/ Runs(p, "updating", "upgrade", Absent)
      BY <2>2, <2>8, RunsAt DEF Settled, Equipped
    <2> QED
      BY <1>1, <2>4, <2>5, <2>6, <2>7, <2>8
      DEF Command, InitCmd, KeysGenerate, Start, Stop, Upgrade, Loads
  <1>2. ASSUME NEW p \in Shell, Continue(p)
        PROVE  SettledOK'
    <2> SUFFICES ASSUME p \in alone
                 PROVE  Settled(shell[p])'
      <3>1. \A q \in alone : q = p \/ shell'[q].at = "idle"
        BY <1>2, GoesOnAlone DEF Alone, Sole, TypeOK
      <3>2. \A q \in alone : shell'[q].at = "idle" => Settled(shell[q])'
        BY DEF Settled, Equipped
      <3>3. alone' \subseteq alone
        BY <1>2, GoesOnAlone
      <3> QED
        BY <3>1, <3>2, <3>3 DEF SettledOK
    <2>1. Settled(shell[p])
      BY DEF SettledOK
    <2>2. ASSUME Ends(p)
          PROVE  Settled(shell[p])'
      BY <2>2, EndsAt DEF Settled, Equipped
    <2>3. ASSUME NEW place \in {"finding", "stopping", "removing", "making"},
                 UNCHANGED file, shell[p].at \in Equipped \union {"pulling"},
                 shell'[p].at = place, shell'[p].cfg = shell[p].cfg
          PROVE  Settled(shell[p])'
      BY <2>1, <2>3 DEF Settled, Equipped
    <2>4. CASE Truncate(p)
      BY <2>1, <2>2, <2>4, GoesTo DEF Truncate, Settled, Equipped
    <2>5. CASE Encode(p)
      <3>1. CASE file' = shell[p].cfg /\ GoTo(p, "finding")
        BY <2>1, <2>5, <3>1, GoesTo DEF Encode, Settled, Equipped
      <3>2. file = Empty
        BY <2>1, <2>5 DEF Encode, Settled
      <3> QED
        BY <2>2, <2>5, <3>1, <3>2 DEF Encode, Saved
    <2>6. CASE IsRunning(p)
      BY <2>1, <2>2, <2>6, GoesTo DEF IsRunning, Settled, Equipped
    <2>7. CASE PullImage(p)
      <3>1. UNCHANGED file /\ shell[p].at = "pulling"
        BY <2>7 DEF PullImage
      <3>2. CASE GoTo(p, "finding")
        BY <2>3, <3>1, <3>2, GoesTo
      <3>3. CASE shell' = [shell EXCEPT ![p].cfg.skb = secrets + 1, ![p].at = Kept(p)]
        BY <2>1, <3>1, <3>3, GivenSecret DEF Settled, Equipped
      <3> QED
        BY <2>2, <2>7, <3>2, <3>3 DEF PullImage
    <2>8. CASE Find(p)
      <3>1. UNCHANGED file /\ shell[p].at = "finding"
        BY <2>8 DEF Find
      <3> QED
        BY <2>3, <2>8, <3>1, FoundAt DEF Equipped
    <2>9. CASE StopExisting(p) \/ RemoveExisting(p)
      <3>1. UNCHANGED file /\ shell[p].at \in {"stopping", "removing"}
        BY <2>9 DEF StopExisting, RemoveExisting
      <3>2. Ends(p) \/ GoTo(p, "removing") \/ GoTo(p, "making")
        BY <2>9 DEF StopExisting, RemoveExisting, Refuse
      <3> QED
        BY <2>2, <2>3, <3>1, <3>2, GoesTo DEF Equipped
    <2>10. CASE ContainerCreate(p)
      <3>1. UNCHANGED file /\ shell[p].at = "making"
        BY <2>10 DEF ContainerCreate
      <3>2. CASE /\ container' = [state |-> "created", id |-> made + 1, jwt |-> shell[p].cfg.jwt, skb |-> shell[p].cfg.skb]
                 /\ shell' = [shell EXCEPT ![p].at = "running", ![p].id = made + 1]
        <4>1. shell'[p].at = "running" /\ shell'[p].id = made + 1 /\ shell'[p].cfg = shell[p].cfg
          BY <3>2 DEF TypeOK, Process
        <4> QED
          BY <2>1, <3>1, <3>2, <4>1 DEF Settled, Equipped
      <3> QED
        BY <2>2, <2>10, <3>2 DEF ContainerCreate, Refuse
    <2>11. CASE ContainerStart(p)
      <3>1. UNCHANGED file /\ shell[p].at = "running"
        BY <2>11 DEF ContainerStart
      <3>2. CASE container' = [container EXCEPT !.state = "running"] /\ GoTo(p, "waiting")
        <4>1. /\ container'.state = "running" /\ container'.id = container.id
              /\ container'.jwt = container.jwt /\ container'.skb = container.skb
          BY <3>2 DEF TypeOK, Containers
        <4> QED
          BY <2>1, <3>1, <3>2, <4>1, GoesTo DEF Settled, Equipped
      <3> QED
        BY <2>2, <2>11, <3>2 DEF ContainerStart, Refuse
    <2>12. CASE ContainerStop(p)
      BY <2>2, <2>12, GoesTo DEF ContainerStop, Settled, Equipped
    <2>13. CASE Waited(p) \/ ContainerRemove(p) \/ PullServerImage(p)
      BY <2>2, <2>13 DEF Waited, ContainerRemove, PullServerImage
    <2> QED
      BY <1>2, <2>4, <2>5, <2>6, <2>7, <2>8, <2>9, <2>10, <2>11, <2>12, <2>13 DEF Continue
  <1>3. ASSUME NEW p \in Shell, Kill(p)
        PROVE  SettledOK'
    BY <1>3 DEF Kill, SettledOK
  <1>4. CASE DeleteFile \/ ServerDies \/ Restarts \/ StoppedByHand
    BY <1>4, EnvironmentAlone DEF SettledOK
  <1>5. CASE UNCHANGED vars
    BY <1>5 DEF vars, SettledOK, Settled
  <1> QED
    BY <1>1, <1>2, <1>3, <1>4, <1>5 DEF Next

\* A start that nothing disturbs, and that does not find a server running already,
\* ends with one that has the secrets on disk, whatever commands that overlapped,
\* failed or were killed left behind (start.go 77-97, docker.go 144-148).
THEOREM RecoversCorrect == Spec => []StartRecovers
  <1>1. Init => Alone /\ HeldOK /\ SettledOK
    BY NoneFacts DEF Init, Alone, HeldOK, ContainerOK, FileOK, Fit, Equipped, SettledOK, Config
  <1>2. TypeOK /\ HeldOK /\ SettledOK => StartRecovers
    BY DEF HeldOK, Fit, SettledOK, Settled, Equipped, StartRecovers, Loads, Running, TypeOK
  <1> QED
    BY <1>1, <1>2, AloneStep, HeldStep, SettledStep, TypeCorrect, PTL DEF Spec
=============================================================================
