------------------------------- MODULE KonetCli -------------------------------
(***************************************************************************)
(* The command line tool (src/konet-cli): the commands that change          *)
(* something, each run in a shell and killed at any point, on one           *)
(* konet.config.toml and one Docker daemon.                                 *)
(*                                                                          *)
(* An action is one system call or one Docker request, with the decisions   *)
(* around it.  A secret is a number, 0 the empty string, and a key pair is  *)
(* the secret that signed it.  The Docker daemon is external: a container   *)
(* whose server dies is restarting (the restart policy is unless-stopped),  *)
(* and one that is running or restarting is not removed.  A request that    *)
(* Docker fails for another reason ends its command where a kill would.     *)
(***************************************************************************)
EXTENDS Naturals

CONSTANTS
  Shell,       \* terminals
  MaxSecrets,  \* bound: secrets generated
  MaxMade,     \* bound: containers created
  MaxCalls,    \* bound: commands
  MaxUpsets    \* bound: kills, deaths of the server, containers stopped or files deleted by hand

ASSUME ConstAssumption ==
  MaxSecrets \in Nat \ {0} /\ MaxMade \in Nat /\ MaxCalls \in Nat /\ MaxUpsets \in Nat

VARIABLES
  file,       \* konet.config.toml
  container,  \* the container named konet-server
  cached,     \* the image is in the local cache
  shell,      \* where the command of each shell is
  secrets, made,
  raced,      \* history: two commands ran at once
  alone,      \* history: shells whose last command began alone, with nothing else happening since
  lost,       \* history: the file was deleted by hand, or a save failed or was killed
  refused,    \* history: what Docker refused to a start, and how the start ran
  upsets, calls

vars == <<file, container, cached, shell, secrets, made, raced, alone, lost, refused, upsets, calls>>

Secret == 0 .. MaxSecrets
Config(jwt, skb, keys) == [is |-> "toml", jwt |-> jwt, skb |-> skb, keys |-> keys]
Empty == Config(0, 0, 0)                   \* an empty file parses
Absent == [Empty EXCEPT !.is = "absent"]
Garbled == [Empty EXCEPT !.is = "garbled"]

Loads == file.is = "toml"

Running(c) == c.state = "running"
NoContainer == [state |-> "none", id |-> 0, jwt |-> 0, skb |-> 0]

AtShell == {"idle", "truncating", "encoding", "checking", "pulling", "finding", "stopping", "removing",
            "making", "running", "waiting", "halting", "clearing", "updating"}
Idle == [at |-> "idle", cmd |-> "none", cfg |-> Absent, id |-> 0]

Init ==
  /\ file \in {Absent, Config(1, 0, 1)}      \* none yet, or one that predates secret_key_base
  /\ container = NoContainer /\ cached \in BOOLEAN
  /\ shell = [p \in Shell |-> Idle] /\ secrets = 1 /\ made = 0
  /\ raced = FALSE /\ alone = {} /\ lost = FALSE /\ refused = {} /\ upsets = 0 /\ calls = 0

Upset == upsets < MaxUpsets /\ upsets' = upsets + 1

Begin(p) ==
  /\ shell[p].at = "idle" /\ calls < MaxCalls /\ calls' = calls + 1
  /\ LET others == \E q \in Shell \ {p} : shell[q].at # "idle" IN
     raced' = (raced \/ others) /\ alone' = IF others THEN {} ELSE {p}

GoTo(p, place) == shell' = [shell EXCEPT ![p].at = place]
Ends(p) == shell' = [shell EXCEPT ![p] = Idle]
Runs(p, place, cmd, cfg) == shell' = [shell EXCEPT ![p] = [Idle EXCEPT !.at = place, !.cmd = cmd, !.cfg = cfg]]

-----------------------------------------------------------------------------
(* konet init, konet keys generate, and the save they share with start *)

Written == file.is # "absent"

InitCmd(p) ==
  /\ Begin(p)
  /\ \/ Written /\ UNCHANGED <<shell, secrets>>
     \/ /\ ~Written /\ secrets + 2 <= MaxSecrets /\ secrets' = secrets + 2
        /\ Runs(p, "truncating", "init", Config(secrets + 1, secrets + 2, 0))
  /\ UNCHANGED <<file, container, cached, made, lost, refused, upsets>>

KeysGenerate(p) ==
  /\ Begin(p)
  /\ IF Loads /\ file.jwt # 0
     THEN Runs(p, "truncating", "keys", [file EXCEPT !.keys = file.jwt])
     ELSE UNCHANGED shell
  /\ UNCHANGED <<file, container, cached, secrets, made, lost, refused, upsets>>

\* Save: os.Create empties the file, the encoder then writes it in one go.
Truncate(p) ==
  /\ shell[p].at = "truncating"
  /\ \/ file' = Empty /\ GoTo(p, "encoding")
     \/ UNCHANGED file /\ Ends(p)
  /\ UNCHANGED <<container, cached, secrets, made, raced, alone, lost, refused, upsets, calls>>

MutSaved(p) ==                        \* mutant: only what changed is written
  IF file = Empty THEN shell[p].cfg ELSE [file EXCEPT !.keys = shell[p].cfg.keys]
Saved(p) == shell[p].cfg

\* A shorter file written over a longer one leaves the end of that one behind,
\* which parses to nothing.  A write that fails writes nothing.
Encode(p) ==
  /\ shell[p].at = "encoding"
  /\ \/ /\ file' = Saved(p) \/ (file # Empty /\ file' = Garbled)
        /\ IF shell[p].cmd = "start" THEN GoTo(p, "finding") ELSE Ends(p)
        /\ UNCHANGED lost
     \/ UNCHANGED file /\ Ends(p) /\ lost' = TRUE
  /\ UNCHANGED <<container, cached, secrets, made, raced, alone, refused, upsets, calls>>

-----------------------------------------------------------------------------
(* konet start.  An empty file loads too. *)

Start(p) ==
  /\ Begin(p)
  /\ IF Loads THEN Runs(p, "checking", "start", file) ELSE UNCHANGED shell
  /\ UNCHANGED <<file, container, cached, secrets, made, lost, refused, upsets>>

IsRunning(p) ==
  /\ shell[p].at = "checking"
  /\ IF Running(container) THEN Ends(p) ELSE GoTo(p, "pulling")
  /\ UNCHANGED <<file, container, cached, secrets, made, raced, alone, lost, refused, upsets, calls>>

MutKept(p) == "finding"               \* mutant: the generated secret is not saved
Kept(p) == "truncating"

\* The image is pulled unless it is cached; the look for it and the pull may fail.
\* A config without a secret_key_base is given one.
PullImage(p) ==
  /\ shell[p].at = "pulling"
  /\ \/ Ends(p) /\ UNCHANGED <<cached, secrets>>
     \/ /\ cached' = TRUE
        /\ \/ shell[p].cfg.skb # 0 /\ GoTo(p, "finding") /\ UNCHANGED secrets
           \/ /\ shell[p].cfg.skb = 0 /\ secrets < MaxSecrets /\ secrets' = secrets + 1
              /\ shell' = [shell EXCEPT ![p].cfg.skb = secrets + 1, ![p].at = Kept(p)]
  /\ UNCHANGED <<file, container, made, raced, alone, lost, refused, upsets, calls>>

MutFound == Running(container)        \* mutant: stopped containers are not listed
Found == container.state # "none"

\* removeIfExists goes on with the id and the state that find saw.
Find(p) ==
  /\ shell[p].at = "finding"
  /\ shell' = [shell EXCEPT ![p].id = container.id,
                 ![p].at = IF ~Found THEN "making" ELSE IF Running(container) THEN "stopping" ELSE "removing"]
  /\ UNCHANGED <<file, container, cached, secrets, made, raced, alone, lost, refused, upsets, calls>>

Refuse(p, why) ==
  /\ Ends(p) /\ refused' = refused \union {[why |-> why, how |-> IF p \in alone THEN "alone" ELSE "disturbed"]}
  /\ UNCHANGED container

StopExisting(p) ==
  /\ shell[p].at = "stopping"
  /\ \/ /\ container.id = shell[p].id /\ container' = [container EXCEPT !.state = "exited"]
        /\ GoTo(p, "removing") /\ UNCHANGED refused
     \/ container.id # shell[p].id /\ Refuse(p, "stop")
  /\ UNCHANGED <<file, cached, secrets, made, raced, alone, lost, upsets, calls>>

Removable(c) == c.state \in {"created", "exited"}

RemoveExisting(p) ==
  /\ shell[p].at = "removing"
  /\ \/ /\ container.id = shell[p].id /\ Removable(container)
        /\ container' = NoContainer /\ GoTo(p, "making") /\ UNCHANGED refused
     \/ (container.id # shell[p].id \/ ~Removable(container)) /\ Refuse(p, "remove")
  /\ UNCHANGED <<file, cached, secrets, made, raced, alone, lost, upsets, calls>>

ContainerCreate(p) ==
  /\ shell[p].at = "making" /\ made < MaxMade
  /\ \/ /\ container.state = "none" /\ made' = made + 1
        /\ container' = [state |-> "created", id |-> made + 1, jwt |-> shell[p].cfg.jwt, skb |-> shell[p].cfg.skb]
        /\ shell' = [shell EXCEPT ![p].at = "running", ![p].id = made + 1] /\ UNCHANGED refused
     \/ container.state # "none" /\ Refuse(p, "name conflict") /\ UNCHANGED made
  /\ UNCHANGED <<file, cached, secrets, raced, alone, lost, upsets, calls>>

\* The container is gone, or its port is taken.
ContainerStart(p) ==
  /\ shell[p].at = "running"
  /\ \/ /\ container.id = shell[p].id /\ container' = [container EXCEPT !.state = "running"]
        /\ GoTo(p, "waiting") /\ UNCHANGED refused
     \/ Refuse(p, "start")
  /\ UNCHANGED <<file, cached, secrets, made, raced, alone, lost, upsets, calls>>

\* waitUntilHealthy: an answer, or the timeout.
Waited(p) ==
  /\ shell[p].at = "waiting" /\ Ends(p)
  /\ UNCHANGED <<file, container, cached, secrets, made, raced, alone, lost, refused, upsets, calls>>

-----------------------------------------------------------------------------
(* konet stop, which addresses the container by name *)

Stop(p) ==
  /\ Begin(p)
  /\ IF Running(container) THEN Runs(p, "halting", "stop", Absent) ELSE UNCHANGED shell
  /\ UNCHANGED <<file, container, cached, secrets, made, lost, refused, upsets>>

ContainerStop(p) ==
  /\ shell[p].at = "halting"
  /\ \/ container = NoContainer /\ Ends(p) /\ UNCHANGED container
     \/ /\ container # NoContainer /\ container' = [container EXCEPT !.state = "exited"]
        /\ GoTo(p, "clearing")
  /\ UNCHANGED <<file, cached, secrets, made, raced, alone, lost, refused, upsets, calls>>

ContainerRemove(p) ==
  /\ shell[p].at = "clearing" /\ Ends(p)
  /\ container' = IF Removable(container) THEN NoContainer ELSE container
  /\ UNCHANGED <<file, cached, secrets, made, raced, alone, lost, refused, upsets, calls>>

-----------------------------------------------------------------------------
(* konet upgrade.  Which konet the install script replaces, and whether it runs  *)
(* at all, is not modelled: after it the server image is pulled.                  *)

Upgrade(p) ==
  /\ Begin(p)
  /\ UNCHANGED shell \/ Runs(p, "updating", "upgrade", Absent)
  /\ UNCHANGED <<file, container, cached, secrets, made, lost, refused, upsets>>

PullServerImage(p) ==
  /\ shell[p].at = "updating" /\ Ends(p)
  /\ cached' \in {cached, TRUE}
  /\ UNCHANGED <<file, container, secrets, made, raced, alone, lost, refused, upsets, calls>>

-----------------------------------------------------------------------------
(* The rest of the machine *)

Kill(p) ==
  /\ Upset /\ shell[p].at # "idle" /\ Ends(p)
  /\ lost' = (lost \/ shell[p].at = "encoding") /\ alone' = {}
  /\ UNCHANGED <<file, container, cached, secrets, made, raced, refused, calls>>

DeleteFile ==
  /\ Upset /\ Written /\ file' = Absent /\ lost' = TRUE /\ alone' = {}
  /\ UNCHANGED <<container, cached, shell, secrets, made, raced, refused, calls>>

Docker(from, to) ==
  /\ container.state = from /\ container' = [container EXCEPT !.state = to] /\ alone' = {}
  /\ UNCHANGED <<file, cached, shell, secrets, made, raced, lost, refused, calls>>

ServerDies == Upset /\ Docker("running", "restarting")
Restarts == UNCHANGED upsets /\ Docker("restarting", "running")
StoppedByHand == Upset /\ Docker("running", "exited")

Command(p) == InitCmd(p) \/ KeysGenerate(p) \/ Start(p) \/ Stop(p) \/ Upgrade(p)

Continue(p) ==
  \/ Truncate(p) \/ Encode(p)
  \/ IsRunning(p) \/ PullImage(p) \/ Find(p) \/ StopExisting(p) \/ RemoveExisting(p)
  \/ ContainerCreate(p) \/ ContainerStart(p) \/ Waited(p)
  \/ ContainerStop(p) \/ ContainerRemove(p) \/ PullServerImage(p)

Next ==
  \/ \E p \in Shell : Command(p) \/ Continue(p) \/ Kill(p)
  \/ DeleteFile \/ ServerDies \/ Restarts \/ StoppedByHand

Spec == Init /\ [][Next]_vars

-----------------------------------------------------------------------------
Undisturbed == ~raced /\ ~lost
Configs == [is : {"toml", "absent", "garbled"}, jwt : Secret, skb : Secret, keys : Secret]
Containers == [state : {"none", "created", "running", "restarting", "exited"},
               id : 0 .. MaxMade, jwt : Secret, skb : Secret]
Process == [at : AtShell, cmd : {"none", "init", "keys", "start", "stop", "upgrade"},
            cfg : Configs, id : 0 .. MaxMade]

TypeOK ==
  /\ file \in Configs
  /\ container \in Containers
  /\ cached \in BOOLEAN
  /\ shell \in [Shell -> Process]
  /\ secrets \in Secret /\ made \in 0 .. MaxMade /\ raced \in BOOLEAN /\ lost \in BOOLEAN
  /\ alone \subseteq Shell
  /\ refused \subseteq [why : {"stop", "remove", "name conflict", "start"},
                 how : {"alone", "disturbed"}]
  /\ upsets \in 0 .. MaxUpsets /\ calls \in 0 .. MaxCalls

AtRest == \A p \in Shell : shell[p].at = "idle"

\* A start clears away what a run that crashed, or was killed or stopped outside
\* the CLI, left behind: the name is free when it creates its container
\* (docker.go 144-148), unless another command ran at the same time; and what
\* overlapping commands left is cleared away by the next start that runs alone.
NameIsFree == \A r \in refused : r.why = "name conflict" => raced /\ r.how = "disturbed"

\* The keys in the file are signed with the jwt_secret beside them, whatever
\* commands overlap or are killed: otherwise the server refuses them (keys.go 41-52).
KeysMatch == file.keys \in {0, file.jwt}

\* What runs was started with the secrets in the file: no later start or init
\* replaces them, so tokens and sessions survive a restart (start.go 77-78,
\* init.go 21-24).
RunsAsConfigured ==
  AtRest /\ Undisturbed /\ container # NoContainer =>
    container.jwt = file.jwt /\ container.skb = file.skb

\* A start that has the machine to itself, and finds no server running (that one it
\* leaves alone), ends with a server that has the secrets on disk, whatever commands
\* that overlapped, failed or were killed left in the file and under the container's
\* name before it (start.go 68-97, docker.go 144-148).
StartRecovers ==
  \A p \in alone : shell[p].at = "waiting" =>
    Loads /\ Running(container) /\ container.jwt = file.jwt /\ container.skb = file.skb /\ file.skb # 0
=============================================================================
