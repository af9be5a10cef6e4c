----------------------------- MODULE UpdaterProofs -----------------------------
(***************************************************************************)
(* What the updater keeps true, for any number of requests, versions and   *)
(* faults, in both deployments: who owns a status that shuts others out,   *)
(* which server runs, what a backup holds and who closes a row.            *)
(***************************************************************************)
EXTENDS Updater, SequenceTheorems, FiniteSetTheorems, TLAPS

-----------------------------------------------------------------------------
(* The inductive invariant.                                                *)

\* A request that has not got to its helper, or whose helper has not yet
\* started the replacement: the container of that name serves nobody.
Unborn(r) ==
    \/ req[r].pc \in Looking \cup ByFile \cup {"unused", "create", "launch"}
    \/ helper[r].pc \in {"begin", "pull", "rename", "stop", "new", "start", "undo"}

\* Each deployment has its own way to install, and each way its own points.
Ways ==
    /\ mode = "binary" =>
          /\ \A c \in Reqs : conts[c].on = "absent"
          /\ \A r \in Reqs : /\ req[r].at = Home
                             /\ helper[r].pc = "off"
                             /\ req[r].pc \notin ByHelper
    /\ mode = "docker" =>
          /\ pending = {}
          /\ \A r \in Reqs : req[r].pc \notin ByFile
    /\ \A r \in Reqs :
          /\ r \in pending => req[r].pc \in {"begin", "done"}
          /\ helper[r].pc # "off" => req[r].pc \in {"told", "begin", "done"}
          /\ req[r].pc \in {"mark", "backup"} => req[r].act = "apply"

\* What serves has a version, and so has what is to be installed.
Versions ==
    /\ \A c \in Conts :
          conts[c].on \in (IF mode = "docker" THEN Live \cup {"off"} ELSE Live) =>
              conts[c].ver # 0
    /\ \A r \in Reqs :
          /\ Installing(r) \/ req[r].pc = "guard2" => req[r].ver # 0
          /\ helper[r].pc \in {"start", "finish"} /\ conts[r].on # "absent" =>
                conts[r].ver = req[r].ver

\* A replacement serves nobody before it is started, no request is at it, and no
\* request is ever at the container that its own helper creates.
Births ==
    \A r \in Reqs :
        /\ req[r].at # r
        /\ Unborn(r) =>
              /\ \A q \in Reqs : req[q].at # r
              /\ conts[r].on \in CASE helper[r].pc = "start" -> {"off"}
                                   [] helper[r].pc = "undo"  -> {"off", "absent"}
                                   [] OTHER                  -> {"absent"}

\* Two updates that are past their last look have met.
Alone ==
    \A r, q \in Reqs : r # q /\ Installing(r) /\ Installing(q) => "overlap" \in stray

\* The file holds what runs, until an update has replaced it and restarts.
FileRuns ==
    mode = "binary" =>
        /\ conts[Home].on \in {"boot", "wired"} =>
              /\ \A r \in Reqs : req[r].pc \in {"unused", "done"}
              /\ pending = {} /\ exe = conts[Home].ver
        /\ \/ exe \in {conts[Home].ver, 0}
           \/ pending # {} \/ \E r \in Reqs : req[r].pc = "restart"
           \/ Excused({"exec", "overlap"})

\* The point at which each active status was written.
Held ==
    \/ /\ st.status = "backing_up"
       /\ \E r \in Reqs : req[r].act = "apply" /\ req[r].pc \in {"backup", "gate", "guard"}
    \/ st.status = "checking" /\ \E r \in Reqs : req[r].pc = "lookup"
    \/ st.status = "pulling" /\ \E r \in Reqs : req[r].pc = "fetch"
    \/ /\ st.status = "recreating"
       /\ \E r \in Reqs : req[r].pc \in {"save", "note", "install", "restart"}
    \/ st.status = "rolling_back" /\ \E r \in Reqs : req[r].pc \in {"keep", "restore", "restart"}
    \/ /\ st.status = "restarting"
       /\ pending # {} \/ \E c \in Conts : conts[c].on = "boot"

\* Whoever wrote an active status is at the point where it was written, or a
\* helper is at work, which writes how it ends.
LeftBehind == {"crash", "gate", "late", "back", "killed"}

Owned == st.status \in Active => Helped \/ Excused(LeftBehind) \/ Held

\* Where the server is while a helper moves it.
Served(r) ==
    LET old == req[r].at
    IN  CASE helper[r].pc \in {"begin", "pull", "rename", "stop"} -> Servers = {old}
          [] helper[r].pc \in {"new", "start"} -> Servers = {} /\ conts[old].on = "off"
          [] helper[r].pc = "undo" -> \/ Servers = {old}
                                      \/ Servers = {} /\ conts[old].on = "off"
          [] helper[r].pc = "finish" -> Servers = {r}
          [] OTHER -> TRUE

OneAtATime ==
    "overlap" \notin stray =>
        /\ \A r \in Reqs : Served(r)
        /\ ~Helped => \/ \E c \in Conts : Servers = {c}
                      \/ Servers = {} /\ Excused({"undo", "crash"})

\* What the status says is installed is installed.
TargetServes ==
    st.status = "completed" /\ st.target # 0 => \A c \in Servers : conts[c].ver = st.target

\* No file is being replaced when an update of the file is complete.
FileSettled ==
    mode = "binary" /\ st.status = "completed" =>
        /\ exe = conts[Home].ver /\ pending = {} /\ conts[Home].on \in Live
        /\ \A r \in Reqs : req[r].pc \notin ByFile \ {"pull", "stat"}

\* The target is what the helper at work installs.
Aimed ==
    \A r \in Reqs : helper[r].pc \notin {"off", "begin"} =>
        IF req[r].act = "rollback"
        THEN st.status \in {"restarting", "completed"} => st.target = 0
        ELSE st.target \in {0, req[r].ver}

Truth == ~Excused({"checked", "overlap"}) => TargetServes /\ FileSettled /\ Aimed

\* A row that nobody follows is waiting for a server to start, or for a helper
\* that is about to start one.
Orphan == \E r \in Reqs : row[r] = "running" /\ trk[r] = "off"

RowsAwaited ==
    Orphan =>
        \/ \E c \in Conts : conts[c].on \in {"boot", "wired"}
        \/ \E r \in Reqs : /\ helper[r].pc \in {"new", "start", "undo"}
                           /\ conts[req[r].at].on \notin Live
        \/ Excused({"early", "undo", "crash"})

\* A name is in use once.
OneFileEach ==
    \A i, j \in DOMAIN backups : backups[i].of = backups[j].of => i = j

UInv == /\ TypeOK /\ Ways /\ Versions /\ Births /\ Alone /\ FileRuns /\ Owned
        /\ OneAtATime /\ Truth /\ RowsAwaited /\ OneFileEach /\ BackupsTrue

-----------------------------------------------------------------------------
(* The state file, requests, helpers and backups, one at a time.           *)

\* Zero is no version, and the versions are the numbers that can be written.
LEMMA Numbers == /\ Version \subseteq 0 .. MaxVersion
                 /\ 0 \in 0 .. MaxVersion
                 /\ \A v \in 0 .. MaxVersion : v # 0 => v \in Version
                 /\ 1 \in Version
BY UpdaterAssumption DEF Version

\* What is not the request that goes on stays as it is, and that one keeps what
\* it asks for.
LEMMA GoEffect ==
    ASSUME TypeOK, NEW r \in Reqs, NEW p \in Point, Go(r, p)
    PROVE  /\ req' \in [Reqs -> Asking]
           /\ req'[r].pc = p
           /\ req'[r].act = req[r].act
           /\ req'[r].ver = req[r].ver
           /\ req'[r].at = req[r].at
           /\ \A q \in Reqs \ {r} : req'[q] = req[q]
BY DEF Go, TypeOK, Asking

\* The same for a request that learns its version.
LEMMA VersionEffect ==
    ASSUME TypeOK, NEW r \in Reqs, NEW p \in Point, NEW v \in 0 .. MaxVersion,
           GoFor(r, p, v)
    PROVE  /\ req' \in [Reqs -> Asking]
           /\ req'[r].pc = p
           /\ req'[r].act = req[r].act
           /\ req'[r].ver = v
           /\ req'[r].at = req[r].at
           /\ \A q \in Reqs \ {r} : req'[q] = req[q]
<1> DEFINE e == [req[r] EXCEPT !.pc = p, !.ver = v]
<1>1. req[r] \in Asking
  BY DEF TypeOK
<1>2. e \in Asking /\ e.pc = p /\ e.act = req[r].act /\ e.ver = v /\ e.at = req[r].at
  BY <1>1 DEF Asking
<1>3. req' = [req EXCEPT ![r] = e]
  BY DEF TypeOK, GoFor
<1>4. req \in [Reqs -> Asking]
  BY DEF TypeOK
<1> HIDE DEF e
<1>5. req'[r] = e /\ req' \in [Reqs -> Asking]
  BY <1>2, <1>3, <1>4
<1>6. \A q \in Reqs \ {r} : req'[q] = req[q]
  BY <1>3, <1>4
<1> QED BY <1>2, <1>5, <1>6

\* And for a helper.
LEMMA HelperEffect ==
    ASSUME TypeOK, NEW r \in Reqs, NEW p \in HelperPoint, HelperGo(r, p)
    PROVE  /\ helper' \in [Reqs -> Working]
           /\ helper'[r].pc = p
           /\ p # "off" => helper'[r].orig = helper[r].orig
           /\ \A q \in Reqs \ {r} : helper'[q] = helper[q]
BY DEF HelperGo, NoHelper, TypeOK, Working, HelperPoint

\* A server that is gone has no request left, no run and no exec to come.
LEMMA ForgetEffect ==
    ASSUME TypeOK, NEW c \in Conts, Forget(c)
    PROVE  /\ req' \in [Reqs -> Asking]
           /\ cur' \in [Conts -> Reqs \cup {None}]
           /\ trk' \in [Reqs -> {"off", "new", "seen"}]
           /\ pending' \subseteq pending
           /\ \A r \in Reqs :
                 /\ req'[r].act = req[r].act
                 /\ req'[r].ver = req[r].ver
                 /\ req'[r].at = req[r].at
                 /\ req[r].at # c => /\ req'[r] = req[r]
                                     /\ trk'[r] = trk[r]
                                     /\ r \in pending' <=> r \in pending
                 /\ req[r].at = c => /\ req'[r].pc = IF req[r].pc = "unused" THEN "unused"
                                                                           ELSE "done"
                                     /\ trk'[r] = "off"
                                     /\ r \notin pending'
<1>1. \A r \in Reqs : [req[r] EXCEPT !.pc = "done"] \in Asking
  BY DEF TypeOK, Asking, Point
<1>2. req' \in [Reqs -> Asking]
  BY <1>1 DEF Forget, TypeOK
<1>3. /\ cur' \in [Conts -> Reqs \cup {None}]
      /\ trk' \in [Reqs -> {"off", "new", "seen"}]
      /\ pending' \subseteq pending
  BY DEF Forget, TypeOK
<1>4. ASSUME NEW r \in Reqs
      PROVE  /\ req'[r].act = req[r].act
             /\ req'[r].ver = req[r].ver
             /\ req'[r].at = req[r].at
  BY DEF Forget, TypeOK, Asking
<1>5. ASSUME NEW r \in Reqs, req[r].at # c
      PROVE  /\ req'[r] = req[r]
             /\ trk'[r] = trk[r]
             /\ r \in pending' <=> r \in pending
  BY <1>5 DEF Forget
<1>6. ASSUME NEW r \in Reqs, req[r].at = c
      PROVE  /\ req'[r].pc = IF req[r].pc = "unused" THEN "unused" ELSE "done"
             /\ trk'[r] = "off"
             /\ r \notin pending'
  BY <1>6 DEF Forget, TypeOK, Asking
<1> QED BY <1>2, <1>3, <1>4, <1>5, <1>6

\* What an undoing does to a container.
LEMMA UndoneEffect ==
    ASSUME TypeOK, NEW r \in Reqs, NEW gone \in BOOLEAN, NEW named \in BOOLEAN,
           NEW started \in BOOLEAN
    PROVE  /\ Undone(r, gone, named, started) \in [Conts -> Container]
           /\ \A c \in Conts :
                 /\ c \notin {r, req[r].at} => Undone(r, gone, named, started)[c] = conts[c]
                 /\ ~(c = r /\ gone) =>
                       /\ Undone(r, gone, named, started)[c].ver = conts[c].ver
                       /\ \/ Undone(r, gone, named, started)[c].on = conts[c].on
                          \/ /\ c = req[r].at /\ started /\ conts[c].on = "off"
                             /\ Undone(r, gone, named, started)[c].on = "boot"
                 /\ c = r /\ gone => Undone(r, gone, named, started)[c].on = "absent"
                 /\ c = req[r].at /\ ~(c = r /\ gone) /\ started /\ conts[c].on = "off" =>
                       Undone(r, gone, named, started)[c].on = "boot"
<1> DEFINE U == Undone(r, gone, named, started)
           empty == [ver |-> 0, name |-> None, on |-> "absent"]
           moved(c) == [conts[c] EXCEPT !.name = IF named THEN helper[r].orig ELSE @,
                                        !.on = IF started /\ @ = "off" THEN "boot" ELSE @]
<1>1. empty \in Container /\ empty.on = "absent"
  BY Numbers DEF Container
<1>2. \A c \in Conts : conts[c] \in Container
  BY DEF TypeOK
<1>3. helper[r].orig \in Conts \cup {None}
  BY DEF TypeOK, Working
<1>4. ASSUME NEW c \in Conts
      PROVE  /\ moved(c) \in Container /\ moved(c).ver = conts[c].ver
             /\ moved(c).on = IF started /\ conts[c].on = "off" THEN "boot" ELSE conts[c].on
  BY <1>2, <1>3 DEF Container, Live
<1> HIDE DEF empty, moved
<1>5. U = [c \in Conts |-> IF c = r /\ gone THEN empty
                           ELSE IF c # req[r].at \/ conts[c].on = "absent" THEN conts[c]
                           ELSE moved(c)]
  BY DEF Undone, empty, moved
<1> HIDE DEF U
<1>6. \A c \in Conts : U[c] = IF c = r /\ gone THEN empty
                              ELSE IF c # req[r].at \/ conts[c].on = "absent" THEN conts[c]
                              ELSE moved(c)
  BY <1>5
<1>7. U \in [Conts -> Container]
  <2>1. \A c \in Conts : U[c] \in Container
    BY <1>1, <1>2, <1>4, <1>6
  <2> QED BY <1>5, <2>1
<1> QED BY <1>1, <1>4, <1>6, <1>7 DEF U

\* The state file keeps its shape when a status or a version is written.
LEMMA StateEffect ==
    ASSUME TypeOK
    PROVE  /\ Failure \in StateFile
           /\ Failure.status = "failed" /\ Failure.target = st.target
           /\ \A v \in 0 .. MaxVersion : Finalize(v) \in StateFile
BY Numbers DEF Failure, Finalize, TypeOK, StateFile, Status, Active

\* The backups that are left when one is replaced.
LEMMA WithoutEffect ==
    ASSUME TypeOK, NEW v
    PROVE  /\ Without(v) \in Seq(File)
           /\ \A i \in DOMAIN Without(v) :
                 \E j \in DOMAIN backups : Without(v)[i] = backups[j]
           /\ OneFileEach =>
                 /\ \A i \in DOMAIN Without(v) : Without(v)[i].of # v
                 /\ \A i, j \in DOMAIN Without(v) :
                       Without(v)[i].of = Without(v)[j].of => i = j
<1> DEFINE named == {i \in DOMAIN backups : backups[i].of = v}
           k == CHOOSE i \in named : TRUE
           S == backups
<1>1. S \in Seq(File) /\ DOMAIN S = 1 .. Len(S) /\ Len(S) \in Nat
  BY DEF TypeOK, File
<1>2. CASE named = {}
  BY <1>1, <1>2 DEF Without, OneFileEach
<1>3. CASE named # {}
  <2>1. k \in named /\ k \in 1 .. Len(S) /\ S[k].of = v
    BY <1>1, <1>3
  <2>2. Without(v) = SubSeq(S, 1, k - 1) \o SubSeq(S, k + 1, Len(S))
    BY <1>3 DEF Without, RemoveAt
  <2> HIDE DEF k, named
  <2> DEFINE A == SubSeq(S, 1, k - 1)
             B == SubSeq(S, k + 1, Len(S))
  <2>3. /\ A \in Seq(File) /\ Len(A) = k - 1
        /\ \A i \in 1 .. k - 1 : A[i] = S[i]
    BY <1>1, <2>1, SubSeqProperties
  <2>4. /\ B \in Seq(File) /\ Len(B) = Len(S) - k
        /\ \A i \in 1 .. Len(S) - k : B[i] = S[k + i]
    <3>1. \A i \in k + 1 .. Len(S) : S[i] \in File
      BY <1>1, <2>1
    <3>2. /\ B \in Seq(File)
          /\ Len(B) = IF k + 1 <= Len(S) THEN Len(S) - (k + 1) + 1 ELSE 0
          /\ \A i \in 1 .. Len(S) - (k + 1) + 1 : B[i] = S[(k + 1) + i - 1]
      BY <1>1, <2>1, <3>1, SubSeqProperties
    <3> HIDE DEF B, S
    <3>3. /\ Len(S) - (k + 1) + 1 = Len(S) - k
          /\ (IF k + 1 <= Len(S) THEN Len(S) - (k + 1) + 1 ELSE 0) = Len(S) - k
          /\ \A i \in 1 .. Len(S) - k : (k + 1) + i - 1 = k + i
      <4>1. \A m \in Nat : \A n \in 1 .. m :
              /\ m - (n + 1) + 1 = m - n
              /\ (IF n + 1 <= m THEN m - (n + 1) + 1 ELSE 0) = m - n
              /\ \A i \in 1 .. m - n : (n + 1) + i - 1 = n + i
        OBVIOUS
      <4> QED BY <1>1, <2>1, <4>1
    <3> QED BY <3>2, <3>3
  <2>5. /\ Without(v) \in Seq(File)
        /\ Len(Without(v)) = Len(S) - 1
        /\ \A i \in 1 .. Len(S) - 1 :
              Without(v)[i] = IF i < k THEN S[i] ELSE S[i + 1]
    <3> HIDE DEF A, B
    <3>1. /\ A \o B \in Seq(File) /\ Len(A \o B) = Len(A) + Len(B)
          /\ \A i \in 1 .. Len(A) + Len(B) :
                (A \o B)[i] = IF i <= Len(A) THEN A[i] ELSE B[i - Len(A)]
      BY <2>3, <2>4, ConcatProperties
    <3>2. Without(v) = A \o B
      BY <2>2 DEF A, B
    <3>3. /\ Len(A) + Len(B) = Len(S) - 1
          /\ \A i \in 1 .. Len(S) - 1 : /\ i < k => i \in 1 .. k - 1 /\ i <= Len(A)
                                        /\ ~(i < k) => /\ ~(i <= Len(A))
                                                       /\ i - Len(A) \in 1 .. Len(S) - k
                                                       /\ k + (i - Len(A)) = i + 1
      BY <1>1, <2>1, <2>3, <2>4
    <3> QED BY <2>3, <2>4, <3>1, <3>2, <3>3
  <2>6. DOMAIN Without(v) = 1 .. Len(S) - 1
    BY <2>5
  <2> HIDE DEF S
  <2>7. \A i \in DOMAIN Without(v) : /\ (IF i < k THEN i ELSE i + 1) \in 1 .. Len(S)
                                    /\ Without(v)[i] = S[IF i < k THEN i ELSE i + 1]
                                    /\ (IF i < k THEN i ELSE i + 1) # k
    BY <1>1, <2>1, <2>5, <2>6
  <2>8. OneFileEach => \A i, j \in 1 .. Len(S) : S[i].of = S[j].of => i = j
    BY <1>1 DEF OneFileEach, S
  <2>9. \A i \in DOMAIN Without(v) : \E j \in DOMAIN backups : Without(v)[i] = backups[j]
    BY <1>1, <2>7 DEF S
  <2>10. ASSUME OneFileEach, NEW i \in DOMAIN Without(v) PROVE Without(v)[i].of # v
    BY <2>1, <2>7, <2>8, <2>10
  <2>11. ASSUME OneFileEach, NEW i \in DOMAIN Without(v), NEW j \in DOMAIN Without(v),
                Without(v)[i].of = Without(v)[j].of
         PROVE  i = j
    <3> DEFINE f(n) == IF n < k THEN n ELSE n + 1
    <3>1. S[f(i)].of = S[f(j)].of /\ f(i) \in 1 .. Len(S) /\ f(j) \in 1 .. Len(S)
      BY <2>7, <2>11
    <3>2. f(i) = f(j)
      BY <2>8, <2>11, <3>1
    <3> QED BY <1>1, <2>1, <2>6, <3>2
  <2> QED BY <2>5, <2>9, <2>10, <2>11
<1> QED BY <1>2, <1>3

\* The backups with a new one, and what is left of them.
LEMMA BackupEffect ==
    ASSUME TypeOK, NEW v \in Version, NEW x \in 0 .. MaxVersion
    PROVE  /\ Backup(v, x) \in Seq(File)
           /\ \A i \in DOMAIN Backup(v, x) :
                 \/ Backup(v, x)[i] = [of |-> v, holds |-> x]
                 \/ \E j \in DOMAIN backups : Backup(v, x)[i] = backups[j]
           /\ OneFileEach => \A i, j \in DOMAIN Backup(v, x) :
                 Backup(v, x)[i].of = Backup(v, x)[j].of => i = j
<1> DEFINE f == [of |-> v, holds |-> x]
           W == Without(v)
           B == Backup(v, x)
<1>1. f \in File /\ f.of = v
  BY DEF File
<1>2. W \in Seq(File) /\ Len(W) \in Nat /\ DOMAIN W = 1 .. Len(W)
  BY WithoutEffect
<1>3. B = <<f>> \o W
  BY DEF Backup
<1> HIDE DEF f, W, B
<1>4. /\ B \in Seq(File) /\ Len(B) = Len(W) + 1 /\ DOMAIN B = 1 .. Len(W) + 1
      /\ B[1] = f
      /\ \A i \in 2 .. Len(W) + 1 : i - 1 \in DOMAIN W /\ B[i] = W[i - 1]
  <2>1. <<f>> \in Seq(File) /\ Len(<<f>>) = 1 /\ <<f>>[1] = f
    BY <1>1
  <2> QED BY <1>2, <1>3, <2>1, ConcatProperties
<1>5. ASSUME NEW i \in DOMAIN B
      PROVE  B[i] = f \/ \E j \in DOMAIN backups : B[i] = backups[j]
  <2>1. CASE i = 1
    BY <1>4, <2>1
  <2>2. CASE i # 1
    <3>1. i - 1 \in DOMAIN W /\ B[i] = W[i - 1]
      BY <1>2, <1>4, <2>2
    <3> QED BY <3>1, WithoutEffect DEF W
  <2> QED BY <2>1, <2>2
<1>6. ASSUME OneFileEach, NEW i \in DOMAIN B, NEW j \in DOMAIN B, B[i].of = B[j].of
      PROVE  i = j
  <2>1. \A k \in DOMAIN W : W[k].of # v
    BY <1>6, WithoutEffect DEF W
  <2>2. \A k, l \in DOMAIN W : W[k].of = W[l].of => k = l
    BY <1>6, WithoutEffect DEF W
  <2>3. CASE i = 1 \/ j = 1
    <3>1. ASSUME NEW k \in DOMAIN B, k # 1 PROVE B[k].of # v
      <4>1. k - 1 \in DOMAIN W /\ B[k] = W[k - 1]
        BY <1>2, <1>4, <3>1
      <4> QED BY <2>1, <4>1
    <3> QED BY <1>1, <1>4, <1>6, <2>3, <3>1
  <2>4. CASE i # 1 /\ j # 1
    <3>1. /\ i - 1 \in DOMAIN W /\ B[i] = W[i - 1]
          /\ j - 1 \in DOMAIN W /\ B[j] = W[j - 1]
      BY <1>2, <1>4, <2>4
    <3>2. i - 1 = j - 1
      BY <1>6, <2>2, <3>1
    <3> QED BY <1>2, <1>4, <3>2
  <2> QED BY <2>3, <2>4
<1> QED BY <1>4, <1>5, <1>6 DEF B, f

\* What pruneBackups keeps are the first two.
LEMMA PruneEffect ==
    ASSUME NEW bs \in Seq(File)
    PROVE  /\ pruneBackups(bs) \in Seq(File)
           /\ DOMAIN pruneBackups(bs) \subseteq DOMAIN bs
           /\ \A i \in DOMAIN pruneBackups(bs) : pruneBackups(bs)[i] = bs[i]
<1> DEFINE n == IF Len(bs) < 2 THEN Len(bs) ELSE 2
<1>1. n \in 0 .. Len(bs) /\ Len(bs) \in Nat /\ DOMAIN bs = 1 .. Len(bs)
  OBVIOUS
<1>2. \A i \in 1 .. n : bs[i] \in File
  BY <1>1
<1>3. pruneBackups(bs) = SubSeq(bs, 1, n)
  BY DEF pruneBackups
<1> HIDE DEF n
<1>4. /\ SubSeq(bs, 1, n) \in Seq(File)
      /\ Len(SubSeq(bs, 1, n)) = n
      /\ \A i \in 1 .. n : SubSeq(bs, 1, n)[i] = bs[i]
  BY <1>1, <1>2, SubSeqProperties
<1> QED BY <1>1, <1>3, <1>4

\* A server that answers has a version.
LEMMA RunningVersion ==
    ASSUME TypeOK, Versions, NEW r \in Reqs, conts[req[r].at].on \in Live
    PROVE  Running(r) \in Version
<1>1. req[r].at \in Conts /\ conts[req[r].at] \in Container
  BY DEF TypeOK, Asking
<1>2. conts[req[r].at].ver # 0
  BY <1>1 DEF Versions
<1> QED BY <1>1, <1>2, Numbers DEF Running, Container

\* What a step may do to the backups: Save and Keep add the file that is there,
\* or a copy of it that broke off, under the name of what runs.
Kept(r, x) ==
    /\ req[r].pc \in {"save", "keep"} /\ Running(r) \in Version
    /\ x \in {exe, 0}
    /\ \/ backups' = Backup(Running(r), x)
       \/ backups' = pruneBackups(Backup(Running(r), x))

LEMMA BackupsStep ==
    ASSUME TypeOK, Versions, [Next]_vars
    PROVE  \/ backups' = backups
           \/ \E r \in Reqs : backups' = Without(Running(r))
           \/ \E r \in Reqs, x \in 0 .. MaxVersion : Kept(r, x)
<1>1. CASE \E r \in Reqs : Save(r) \/ Keep(r)
  <2>1. PICK r \in Reqs : Save(r) \/ Keep(r)
    BY <1>1
  <2>2. Running(r) \in Version /\ req[r].pc \in {"save", "keep"}
    BY <2>1, RunningVersion DEF Save, Keep, At, Live
  <2>3. exe \in 0 .. MaxVersion /\ 0 \in 0 .. MaxVersion
    BY Numbers DEF TypeOK
  <2>4. \/ backups' = backups \/ backups' = Without(Running(r))
        \/ \E x \in {exe, 0} : \/ backups' = Backup(Running(r), x)
                               \/ backups' = pruneBackups(Backup(Running(r), x))
    BY <2>1 DEF Save, Keep
  <2> QED BY <2>2, <2>3, <2>4 DEF Kept
<1>2. ASSUME NEW r \in Reqs, Steps(r), ~Save(r), ~Keep(r) PROVE backups' = backups
  <2>1. CASE \/ MarkBackingUp(r) \/ CreateBackup(r) \/ Gate(r) \/ Resolve(r)
             \/ Guard(r) \/ CheckBegins(r) \/ CheckEnds(r) \/ Guard2(r) \/ GuardBack(r)
    BY <2>1 DEF MarkBackingUp, CreateBackup, Gate, Resolve, Guard, CheckBegins,
                CheckEnds, Guard2, GuardBack, files
  <2>2. CASE \/ Pull(r) \/ Fetch(r) \/ Note(r) \/ Install(r) \/ Restart(r)
             \/ BackStarts(r) \/ Restore(r) \/ Exec(r)
    BY <2>2 DEF Pull, Fetch, Note, Install, Restart, BackStarts, Restore, Exec, files
  <2>3. CASE Create(r) \/ Launch(r) \/ Told(r) \/ Begin(r)
    BY <2>3 DEF Create, Launch, Told, Begin, files
  <2> QED BY <1>2, <2>1, <2>2, <2>3 DEF Steps
<1>3. ASSUME NEW r \in Reqs, HelperSteps(r) PROVE backups' = backups
  BY <1>3 DEF HelperSteps, HelperBegins, HelperPulls, HelperRenames, HelperStops,
              HelperCreates, HelperStarts, HelperUndoes, HelperFinishes, files
<1>4. ASSUME NEW r \in Reqs, Request(r) \/ Track(r) \/ HelperDies(r)
      PROVE  backups' = backups
  BY <1>4 DEF Request, Track, HelperDies, files
<1>5. ASSUME NEW c \in Conts, Boot(c) \/ Reconcile(c) \/ Crash(c)
      PROVE  backups' = backups
  BY <1>5 DEF Boot, Reconcile, Crash, files
<1>6. CASE Publish \/ UNCHANGED vars
  BY <1>6 DEF Publish, vars, files
<1> QED BY <1>1, <1>2, <1>3, <1>4, <1>5, <1>6 DEF Next

-----------------------------------------------------------------------------
(* Type correctness.                                                       *)

\* What most steps leave alone.
Steady == <<mode, latest, exe, conts, pending, helper, cur, trk, row>>

\* A request that goes on, and a status that is written on the way.
LEMMA WalkTyped ==
    ASSUME TypeOK, UNCHANGED Steady, st' \in StateFile, backups' \in Seq(File),
           req' \in [Reqs -> Asking]
    PROVE  TypeOK'
BY DEF TypeOK, Steady

\* Every point can be gone to.
LEMMA Points ==
    /\ Looking \subseteq Point /\ ByFile \subseteq Point /\ ByHelper \subseteq Point
    /\ {"unused", "begin", "done"} \subseteq Point
BY DEF Point

\* Before the last look at the status.
LEMMA LookingTyped ==
    ASSUME TypeOK, NEW r \in Reqs,
           \/ Request(r) \/ MarkBackingUp(r) \/ CreateBackup(r) \/ Gate(r)
           \/ Resolve(r) \/ Guard(r) \/ CheckBegins(r) \/ CheckEnds(r) \/ Guard2(r)
           \/ GuardBack(r)
    PROVE  TypeOK'
<1>1. UNCHANGED Steady /\ backups' = backups
  BY DEF Steady, Request, MarkBackingUp, CreateBackup, Gate, Resolve, Guard,
         CheckBegins, CheckEnds, Guard2, GuardBack, env, files, tracks
<1>2. st' \in StateFile
  <2>1. \A s \in Status : /\ [st EXCEPT !.status = s] \in StateFile
                          /\ [st EXCEPT !.target = latest, !.status = s] \in StateFile
    BY Numbers DEF TypeOK, StateFile
  <2>2. {"backing_up", "checking", "available", "idle", "failed"} \subseteq Status
    BY DEF Status, Active
  <2>3. CASE CheckEnds(r)
    <3> DEFINE s == IF hasUpdate(Running(r)) THEN "available" ELSE "idle"
               found == [st EXCEPT !.target = latest, !.status = s]
    <3>1. found \in StateFile
      BY <2>1, <2>2
    <3>2. [found EXCEPT !.status = "failed"] \in StateFile
      BY <3>1, <2>2 DEF StateFile
    <3>3. st' \in {Failure, found, [found EXCEPT !.status = "failed"]}
      BY <2>3 DEF CheckEnds
    <3> QED BY <3>1, <3>2, <3>3, StateEffect
  <2>4. CASE ~CheckEnds(r)
    <3>1. st' \in {st, Failure, [st EXCEPT !.status = "backing_up"],
                   [st EXCEPT !.status = "checking"]}
      BY <2>4 DEF Request, MarkBackingUp, CreateBackup, Gate, Resolve, Guard,
                  CheckBegins, Guard2, GuardBack, Fail
    <3> QED BY <2>1, <2>2, <3>1, StateEffect DEF TypeOK
  <2> QED BY <2>3, <2>4
<1>3. req' \in [Reqs -> Asking]
  <2>1. CASE Request(r)
    <3>1. PICK c \in Conts, a \in Acts :
            req' = [req EXCEPT ![r] =
                     [pc  |-> CASE a = "apply" -> "mark" [] a = "check" -> "check"
                                [] OTHER -> "gate",
                      act |-> a, ver |-> 0, at |-> c]]
      BY <2>1 DEF Request
    <3>2. [pc  |-> CASE a = "apply" -> "mark" [] a = "check" -> "check" [] OTHER -> "gate",
           act |-> a, ver |-> 0, at |-> c] \in Asking
      BY Numbers DEF Asking, Point, Looking
    <3> QED BY <3>1, <3>2 DEF TypeOK
  <2>2. CASE \/ \E p \in Point : Go(r, p)
             \/ \E p \in Point, v \in 0 .. MaxVersion :
                   GoFor(r, p, v)
    BY <2>2, GoEffect, VersionEffect
  <2>3. \A v \in 1 .. latest : v \in 0 .. MaxVersion
    BY UpdaterAssumption DEF TypeOK, Version
  <2>4. latest \in 0 .. MaxVersion /\ st.previous \in 0 .. MaxVersion
    BY Numbers DEF TypeOK, StateFile
  <2>5. CASE Resolve(r)
    BY <2>2, <2>3, <2>5 DEF Resolve, Point, Looking
  <2>6. CASE CheckEnds(r)
    BY <2>2, <2>4, <2>6 DEF CheckEnds, Point, Looking
  <2>7. CASE GuardBack(r)
    <3>1. {"done", "create", "stat"} \subseteq Point
      BY DEF Point, ByFile, ByHelper
    <3>2. (IF mode = "docker" THEN "create" ELSE "stat") \in Point
      BY <3>1
    <3> QED BY <2>2, <2>4, <2>7, <3>1, <3>2 DEF GuardBack
  <2>8. CASE \/ MarkBackingUp(r) \/ CreateBackup(r) \/ Gate(r) \/ Guard(r)
             \/ CheckBegins(r) \/ Guard2(r)
    <3>1. \E p \in {"backup", "gate", "done", "resolve", "guard", "check", "lookup",
                    "create", "pull"} : Go(r, p)
      BY <2>8 DEF MarkBackingUp, CreateBackup, Gate, Guard, CheckBegins, Guard2, Fail
    <3> QED BY <2>2, <3>1 DEF Point, Looking, ByFile, ByHelper
  <2> QED BY <2>1, <2>5, <2>6, <2>7, <2>8
<1> QED BY <1>1, <1>2, <1>3, WalkTyped DEF TypeOK

\* The backups stay well typed whatever a step does to them.
LEMMA BackupsTyped ==
    ASSUME TypeOK, Versions, [Next]_vars
    PROVE  backups' \in Seq(File)
<1>1. ASSUME NEW r \in Reqs, NEW x \in 0 .. MaxVersion, Kept(r, x)
      PROVE  backups' \in Seq(File)
  <2>1. Running(r) \in Version
    BY <1>1 DEF Kept
  <2>2. Backup(Running(r), x) \in Seq(File)
    BY <2>1, BackupEffect
  <2> QED BY <1>1, <2>2, PruneEffect DEF Kept
<1> QED BY <1>1, BackupsStep, WithoutEffect DEF TypeOK

\* Installing a file, from the download to the exec that is due.
LEMMA FileTyped ==
    ASSUME TypeOK, Versions, NEW r \in Reqs, backups' \in Seq(File),
           \/ Pull(r) \/ Fetch(r) \/ Save(r) \/ Note(r) \/ Install(r) \/ Restart(r)
           \/ BackStarts(r) \/ Keep(r) \/ Restore(r)
    PROVE  TypeOK'
<1>1. UNCHANGED <<mode, latest, conts, helper, cur, trk, row>>
  BY DEF Pull, Fetch, Save, Note, Install, Restart, BackStarts, Keep, Restore, env, tracks
<1>2. exe' \in 0 .. MaxVersion /\ pending' \subseteq Reqs
  <2>1. req[r].ver \in 0 .. MaxVersion /\ exe \in 0 .. MaxVersion /\ 0 \in 0 .. MaxVersion
    BY Numbers DEF TypeOK, Asking
  <2>2. \A i \in DOMAIN backups : backups[i].holds \in 0 .. MaxVersion
    <3>1. \A i \in DOMAIN backups : backups[i] \in File
      BY DEF TypeOK
    <3> QED BY <3>1 DEF File
  <2>3. CASE Install(r)
    BY <2>1, <2>3 DEF Install, TypeOK
  <2>4. CASE Restore(r)
    BY <2>1, <2>2, <2>4 DEF Restore, TypeOK
  <2>5. CASE \/ Pull(r) \/ Fetch(r) \/ Save(r) \/ Note(r) \/ Restart(r)
             \/ BackStarts(r) \/ Keep(r)
    BY <2>5 DEF Pull, Fetch, Save, Note, Restart, BackStarts, Keep, TypeOK, files
  <2> QED BY <2>3, <2>4, <2>5
<1>3. \E p \in Point : Go(r, p)
  <2>1. \E p \in {"fetch", "save", "done", "note", "install", "restart", "begin",
                  "keep", "restore"} : Go(r, p)
    BY DEF Pull, Fetch, Save, Note, Install, Restart, BackStarts, Keep, Restore
  <2> QED BY <2>1 DEF Point, ByFile
<1>4. st' \in StateFile
  <2>1. /\ req[r].at \in Conts /\ req[r].ver \in 0 .. MaxVersion
        /\ Running(r) \in 0 .. MaxVersion
    BY DEF TypeOK, Asking, Container, Running
  <2>2. {"pulling", "recreating", "restarting", "rolling_back"} \subseteq Status
    BY DEF Status, Active
  <2>3. /\ [st EXCEPT !.status = "pulling", !.target = req[r].ver] \in StateFile
        /\ [st EXCEPT !.status = "recreating"] \in StateFile
        /\ [st EXCEPT !.status = "restarting"] \in StateFile
        /\ [st EXCEPT !.previous = Running(r), !.back = 0] \in StateFile
        /\ [st EXCEPT !.status = "rolling_back", !.back = req[r].ver] \in StateFile
    BY <2>1, <2>2, Numbers DEF TypeOK, StateFile
  <2>4. st' \in {st, Failure, [st EXCEPT !.status = "pulling", !.target = req[r].ver],
                 [st EXCEPT !.status = "recreating"], [st EXCEPT !.status = "restarting"],
                 [st EXCEPT !.previous = Running(r), !.back = 0],
                 [st EXCEPT !.status = "rolling_back", !.back = req[r].ver]}
    BY DEF Pull, Fetch, Save, Note, Install, Restart, BackStarts, Keep, Restore
  <2>5. st \in StateFile
    BY DEF TypeOK
  <2> QED BY <2>3, <2>4, <2>5, StateEffect
<1> QED BY <1>1, <1>2, <1>3, <1>4, GoEffect DEF TypeOK

\* Starting a helper, and what the request writes after it.
LEMMA LaunchTyped ==
    ASSUME TypeOK, NEW r \in Reqs, Create(r) \/ Launch(r) \/ Told(r)
    PROVE  TypeOK'
<1>1. UNCHANGED <<mode, latest, exe, backups, conts, pending, cur, trk, row>>
  BY DEF Create, Launch, Told, env, files, tracks
<1>2. \E p \in Point : Go(r, p)
  <2>1. \E p \in {"launch", "told", "begin", "done"} : Go(r, p)
    BY DEF Create, Launch, Told, Fail
  <2> QED BY <2>1 DEF Point, ByHelper
<1>3. helper' \in [Reqs -> Working]
  BY DEF Create, Launch, Told, TypeOK, Working, HelperPoint
<1>4. st' \in StateFile
  <2>1. /\ req[r].at \in Conts /\ req[r].ver \in 0 .. MaxVersion
        /\ Running(r) \in 0 .. MaxVersion
    BY DEF TypeOK, Asking, Container, Running
  <2>2. "restarting" \in Status
    BY DEF Status, Active
  <2>3. /\ st \in StateFile
        /\ [st EXCEPT !.previous = Running(r), !.back = 0] \in StateFile
        /\ [st EXCEPT !.status = "restarting", !.back = req[r].ver, !.target = 0]
              \in StateFile
        /\ [st EXCEPT !.status = "restarting", !.target = req[r].ver,
                      !.previous = Running(r), !.back = 0] \in StateFile
    BY <2>1, <2>2, Numbers DEF TypeOK, StateFile
  <2>4. st' \in {st, Failure, [st EXCEPT !.previous = Running(r), !.back = 0],
                 [st EXCEPT !.status = "restarting", !.back = req[r].ver, !.target = 0],
                 [st EXCEPT !.status = "restarting", !.target = req[r].ver,
                            !.previous = Running(r), !.back = 0]}
    BY DEF Create, Launch, Told, Fail
  <2> QED BY <2>3, <2>4, StateEffect
<1> QED BY <1>1, <1>2, <1>3, <1>4, GoEffect DEF TypeOK

\* The steps of a helper.
LEMMA HelperTyped ==
    ASSUME TypeOK, NEW r \in Reqs, HelperSteps(r)
    PROVE  TypeOK'
<1>1. UNCHANGED <<mode, latest, exe, backups, row>>
  BY DEF HelperSteps, HelperBegins, HelperPulls, HelperRenames, HelperStops,
         HelperCreates, HelperStarts, HelperUndoes, HelperFinishes, env, files, tracks
<1>2. helper' \in [Reqs -> Working]
  <2>1. CASE HelperRenames(r)
    <3>1. CASE HelperFails(r)
      BY <3>1, HelperEffect DEF HelperFails, HelperPoint
    <3>2. CASE helper' = [helper EXCEPT ![r].pc = "stop",
                                        ![r].orig = conts[req[r].at].name]
      <4> DEFINE w == [helper[r] EXCEPT !.pc = "stop", !.orig = conts[req[r].at].name]
      <4>1. w \in Working
        <5>1. helper[r] \in Working /\ req[r].at \in Conts
          BY DEF TypeOK, Asking
        <5>2. conts[req[r].at].name \in Conts \cup {None}
          BY <5>1 DEF TypeOK, Container
        <5> QED BY <5>1, <5>2 DEF Working, HelperPoint
      <4>2. helper' = [helper EXCEPT ![r] = w]
        BY <3>2 DEF TypeOK
      <4> HIDE DEF w
      <4> QED BY <4>1, <4>2 DEF TypeOK
    <3> QED BY <2>1, <3>1, <3>2 DEF HelperRenames
  <2>2. CASE ~HelperRenames(r)
    <3>1. \E p \in HelperPoint : HelperGo(r, p)
      BY <2>2 DEF HelperSteps, HelperBegins, HelperPulls, HelperStops,
           HelperCreates, HelperStarts, HelperUndoes, HelperFinishes, HelperFails,
           HelperPoint
    <3> QED BY <3>1, HelperEffect
  <2> QED BY <2>1, <2>2
<1>3. st' \in StateFile
  <2>1. req[r].ver \in 0 .. MaxVersion
    BY DEF TypeOK, Asking
  <2>2. {"rolling_back", "pulling", "recreating", "restarting", "completed"} \subseteq Status
    BY DEF Status, Active
  <2>3. /\ st \in StateFile
        /\ [st EXCEPT !.status = "rolling_back", !.back = req[r].ver] \in StateFile
        /\ [st EXCEPT !.status = "pulling", !.target = req[r].ver] \in StateFile
        /\ [st EXCEPT !.status = "recreating"] \in StateFile
        /\ [st EXCEPT !.status = "completed"] \in StateFile
        /\ [st EXCEPT !.status = "restarting", !.back = req[r].ver, !.target = 0]
              \in StateFile
    BY <2>1, <2>2, Numbers DEF TypeOK, StateFile
  <2>4. st' \in {st, Failure, [st EXCEPT !.status = "rolling_back", !.back = req[r].ver],
                 [st EXCEPT !.status = "pulling", !.target = req[r].ver],
                 [st EXCEPT !.status = "recreating"], [st EXCEPT !.status = "completed"],
                 [st EXCEPT !.status = "restarting", !.back = req[r].ver, !.target = 0]}
    BY DEF HelperSteps, HelperBegins, HelperPulls, HelperRenames, HelperStops,
           HelperCreates, HelperStarts, HelperUndoes, HelperFinishes, HelperFails
  <2> QED BY <2>3, <2>4, StateEffect
<1>4. conts' \in [Conts -> Container]
  <2> DEFINE old == req[r].at
  <2>1. /\ old \in Conts /\ r \in Conts /\ req[r].ver \in 0 .. MaxVersion
        /\ helper[r].orig \in Conts \cup {None}
    BY DEF TypeOK, Asking, Working, Conts
  <2>2. \A c \in Conts : conts[c] \in Container
    BY DEF TypeOK
  <2>3. [ver |-> 0, name |-> None, on |-> "absent"] \in Container
    BY Numbers DEF Container
  <2>5. CASE HelperRenames(r)
    <3>1. conts' = conts \/ conts' = [conts EXCEPT ![old] = [conts[old] EXCEPT !.name = r]]
      BY <2>5 DEF HelperRenames, TypeOK
    <3>2. [conts[old] EXCEPT !.name = r] \in Container
      BY <2>1, <2>2 DEF Container
    <3> QED BY <2>1, <3>1, <3>2 DEF TypeOK
  <2>6. CASE HelperStops(r) \/ HelperStarts(r)
    <3>1. \/ conts' = conts
          \/ conts' = [conts EXCEPT ![old] = [conts[old] EXCEPT !.on = "off"]]
          \/ conts' = [conts EXCEPT ![r] = [conts[r] EXCEPT !.on = "boot"]]
      BY <2>1, <2>6 DEF HelperStops, HelperStarts, TypeOK
    <3>2. /\ [conts[old] EXCEPT !.on = "off"] \in Container
          /\ [conts[r] EXCEPT !.on = "boot"] \in Container
      BY <2>1, <2>2 DEF Container, Live
    <3> QED BY <2>1, <3>1, <3>2 DEF TypeOK
  <2>7. CASE HelperCreates(r)
    <3>1. [ver |-> req[r].ver, name |-> helper[r].orig, on |-> "off"] \in Container
      BY <2>1 DEF Container
    <3> QED BY <2>1, <2>7, <3>1 DEF HelperCreates, TypeOK
  <2>8. CASE HelperFinishes(r)
    BY <2>1, <2>3, <2>8 DEF HelperFinishes, TypeOK
  <2>9. CASE HelperUndoes(r)
    <3>1. PICK gone, named, started \in BOOLEAN : conts' = Undone(r, gone, named, started)
      BY <2>9 DEF HelperUndoes
    <3> QED BY <3>1, UndoneEffect
  <2>10. CASE HelperBegins(r) \/ HelperPulls(r)
    BY <2>10 DEF HelperBegins, HelperPulls, TypeOK
  <2> QED BY <2>5, <2>6, <2>7, <2>8, <2>9, <2>10 DEF HelperSteps
<1>5. CASE ~HelperStops(r)
  <2>1. UNCHANGED <<req, pending, cur, trk>>
    BY <1>5 DEF HelperSteps, HelperBegins, HelperPulls, HelperRenames,
         HelperCreates, HelperStarts, HelperUndoes, HelperFinishes, tracks
  <2> QED BY <1>1, <1>2, <1>3, <1>4, <2>1 DEF TypeOK
<1>6. CASE HelperStops(r)
  <2>1. req[r].at \in Conts
    BY DEF TypeOK, Asking
  <2>2. Forget(req[r].at) \/ UNCHANGED <<req, pending, cur, trk>>
    BY <1>6 DEF HelperStops
  <2>3. /\ req' \in [Reqs -> Asking] /\ pending' \subseteq Reqs
        /\ cur' \in [Conts -> Reqs \cup {None}]
        /\ trk' \in [Reqs -> {"off", "new", "seen"}]
    BY <2>1, <2>2, ForgetEffect DEF TypeOK
  <2> QED BY <1>1, <1>2, <1>3, <1>4, <2>3 DEF TypeOK
<1> QED BY <1>5, <1>6

\* The exec, the rows and the servers that start or die.
LEMMA ServerTyped ==
    ASSUME TypeOK, NEW c \in Conts, Boot(c) \/ Reconcile(c) \/ Crash(c)
    PROVE  TypeOK'
<1>1. UNCHANGED <<mode, latest, exe, backups, helper>>
  BY DEF Boot, Reconcile, Crash, env, files
<1>2. conts[c] \in Container
  BY DEF TypeOK
<1>3. CASE Boot(c)
  <2>1. [conts[c] EXCEPT !.on = "wired"] \in Container /\ conts[c].ver \in 0 .. MaxVersion
    BY <1>2 DEF Container, Live
  <2>2. conts' = [conts EXCEPT ![c] = [conts[c] EXCEPT !.on = "wired"]]
    BY <1>3 DEF Boot, TypeOK
  <2>3. conts' \in [Conts -> Container]
    BY <2>1, <2>2 DEF TypeOK
  <2>4. st' \in StateFile
    BY <1>3, <2>1, StateEffect DEF Boot
  <2>5. UNCHANGED <<req, pending, cur, trk, row>>
    BY <1>3 DEF Boot, tracks
  <2> QED BY <1>1, <2>3, <2>4, <2>5 DEF TypeOK
<1>4. CASE Reconcile(c)
  <2>1. [conts[c] EXCEPT !.on = "up"] \in Container
    BY <1>2 DEF Container, Live
  <2>2. conts' = [conts EXCEPT ![c] = [conts[c] EXCEPT !.on = "up"]]
    BY <1>4 DEF Reconcile, TypeOK
  <2>3. conts' \in [Conts -> Container]
    BY <2>1, <2>2 DEF TypeOK
  <2>4. mapLegacyStatus(st.status) \in {"running", "succeeded", "failed", "idle"}
    BY DEF mapLegacyStatus, TypeOK, StateFile, Status
  <2>5. row' \in [Reqs -> {"none", "running", "succeeded", "failed", "cancelled"}]
    BY <1>4, <2>4 DEF Reconcile, TypeOK
  <2>6. UNCHANGED <<st, req, pending, cur, trk>>
    BY <1>4 DEF Reconcile
  <2> QED BY <1>1, <2>3, <2>5, <2>6 DEF TypeOK
<1>5. CASE Crash(c)
  <2>1. PICK v \in 0 .. MaxVersion, p \in {"off", "boot"} :
          conts' = [conts EXCEPT ![c].on = p, ![c].ver = v]
    BY <1>2, <1>5 DEF Crash, TypeOK, Container
  <2>2. [conts[c] EXCEPT !.on = p, !.ver = v] \in Container
    BY <1>2 DEF Container, Live
  <2>3. conts' = [conts EXCEPT ![c] = [conts[c] EXCEPT !.on = p, !.ver = v]]
    BY <2>1 DEF TypeOK
  <2>4. conts' \in [Conts -> Container]
    BY <2>2, <2>3 DEF TypeOK
  <2>5. /\ req' \in [Reqs -> Asking] /\ pending' \subseteq Reqs
        /\ cur' \in [Conts -> Reqs \cup {None}]
        /\ trk' \in [Reqs -> {"off", "new", "seen"}]
    BY <1>5, ForgetEffect DEF Crash, TypeOK
  <2>6. UNCHANGED <<st, row>>
    BY <1>5 DEF Crash
  <2> QED BY <1>1, <2>4, <2>5, <2>6 DEF TypeOK
<1> QED BY <1>3, <1>4, <1>5

LEMMA ExecTyped ==
    ASSUME TypeOK, NEW r \in Reqs, Exec(r)
    PROVE  TypeOK'
<1>1. UNCHANGED <<mode, latest, exe, backups, helper, row>>
  BY DEF Exec, env, files
<1>2. Home \in Conts
  BY DEF Conts
<1>3. CASE st' = Failure /\ pending' = pending \ {r} /\ UNCHANGED <<conts, req, cur, trk>>
  BY <1>1, <1>3, StateEffect DEF TypeOK
<1>4. CASE /\ conts' = [conts EXCEPT ![Home].ver = exe, ![Home].on = "boot"]
           /\ Forget(Home) /\ st' = st
  <2>2. [conts[Home] EXCEPT !.ver = exe, !.on = "boot"] \in Container
    BY <1>2 DEF TypeOK, Container, Live
  <2>3. conts' = [conts EXCEPT ![Home] = [conts[Home] EXCEPT !.ver = exe, !.on = "boot"]]
    BY <1>2, <1>4 DEF TypeOK
  <2>4. conts' \in [Conts -> Container]
    BY <2>2, <2>3 DEF TypeOK
  <2>5. /\ req' \in [Reqs -> Asking] /\ pending' \subseteq Reqs
        /\ cur' \in [Conts -> Reqs \cup {None}]
        /\ trk' \in [Reqs -> {"off", "new", "seen"}]
    BY <1>2, <1>4, ForgetEffect DEF TypeOK
  <2> QED BY <1>1, <1>4, <2>4, <2>5 DEF TypeOK
<1> QED BY <1>3, <1>4 DEF Exec

LEMMA RowTyped ==
    ASSUME TypeOK, NEW r \in Reqs, Begin(r) \/ Track(r) \/ HelperDies(r)
    PROVE  TypeOK'
<1>1. UNCHANGED <<mode, latest, st, exe, backups, conts, pending>>
  BY DEF Begin, Track, HelperDies, env, files
<1>2. req[r].at \in Conts
  BY DEF TypeOK, Asking
<1>3. CASE Begin(r)
  <2>1. req' \in [Reqs -> Asking]
    <3>1. "done" \in Point
      BY DEF Point
    <3> QED BY <1>3, <3>1, GoEffect DEF Begin
  <2>2. /\ row' \in [Reqs -> {"none", "running", "succeeded", "failed", "cancelled"}]
        /\ cur' \in [Conts -> Reqs \cup {None}]
        /\ trk' \in [Reqs -> {"off", "new", "seen"}] /\ helper' = helper
    BY <1>2, <1>3 DEF Begin, tracks, TypeOK
  <2> QED BY <1>1, <2>1, <2>2 DEF TypeOK
<1>4. CASE Track(r)
  <2>1. mapLegacyStatus(st.status) \in {"running", "succeeded", "failed", "idle"}
    BY DEF mapLegacyStatus, TypeOK, StateFile, Status
  <2>2. /\ row' \in [Reqs -> {"none", "running", "succeeded", "failed", "cancelled"}]
        /\ cur' \in [Conts -> Reqs \cup {None}]
        /\ trk' \in [Reqs -> {"off", "new", "seen"}]
        /\ UNCHANGED <<helper, req>>
    BY <1>2, <1>4, <2>1 DEF Track, TypeOK
  <2> QED BY <1>1, <2>2 DEF TypeOK
<1>5. CASE HelperDies(r)
  <2>1. "off" \in HelperPoint
    BY DEF HelperPoint
  <2>2. helper' \in [Reqs -> Working] /\ UNCHANGED <<req, cur, trk, row>>
    BY <1>5, <2>1, HelperEffect DEF HelperDies, tracks
  <2> QED BY <1>1, <2>2 DEF TypeOK
<1> QED BY <1>3, <1>4, <1>5

\* Every step keeps the types.
LEMMA TypeStep ==
    ASSUME TypeOK, Versions, [Next]_vars
    PROVE  TypeOK'
<1>1. CASE Publish
  <2>1. latest' \in Version
    BY <1>1, UpdaterAssumption DEF Publish, TypeOK, Version
  <2> QED BY <1>1, <2>1 DEF Publish, TypeOK, files, tracks
<1>2. ASSUME NEW r \in Reqs, Request(r) \/ Steps(r) \/ HelperSteps(r) \/ Track(r) \/ HelperDies(r)
      PROVE  TypeOK'
  BY <1>2, BackupsTyped, LookingTyped, FileTyped, LaunchTyped, HelperTyped, ExecTyped,
     RowTyped DEF Steps
<1>3. CASE UNCHANGED vars
  BY <1>3 DEF vars, TypeOK
<1> QED BY <1>1, <1>2, <1>3, ServerTyped DEF Next

-----------------------------------------------------------------------------
(* What the steps do to requests, helpers and containers.                  *)

\* Where a request can go on from p.
Flow(p, s) ==
    \/ p = "mark"    /\ s = "backup"
    \/ p = "backup"  /\ s \in {"gate", "done"}
    \/ p = "gate"    /\ s \in {"resolve", "guard", "done"}
    \/ p = "resolve" /\ s \in {"guard2", "done"}
    \/ p = "guard"   /\ s \in {"check", "create", "stat", "done"}
    \/ p = "check"   /\ s = "lookup"
    \/ p = "lookup"  /\ s \in {"guard2", "done"}
    \/ p = "guard2"  /\ s \in {"create", "pull", "done"}
    \/ p = "pull"    /\ s = "fetch"
    \/ p = "fetch"   /\ s \in {"save", "done"}
    \/ p = "save"    /\ s \in {"note", "done"}
    \/ p = "note"    /\ s = "install"
    \/ p = "install" /\ s \in {"restart", "done"}
    \/ p = "stat"    /\ s \in {"keep", "done"}
    \/ p = "keep"    /\ s = "restore"
    \/ p = "restore" /\ s \in {"restart", "done"}
    \/ p = "restart" /\ s = "begin"
    \/ p = "create"  /\ s \in {"launch", "done"}
    \/ p = "launch"  /\ s \in {"told", "done"}
    \/ p = "told"    /\ s = "begin"
    \/ p = "begin"   /\ s = "done"

\* The steps at which a request learns its version.
Learns(p, s) == p \in {"resolve", "lookup", "guard"} /\ s \in {"guard2", "create", "stat"}

\* A request that goes on, for whoever looks at requests, helpers and execs.
Move(r) ==
    LET p == req[r].pc
        s == req'[r].pc
    IN  /\ conts[req[r].at].on = "up"
        /\ UNCHANGED <<mode, conts>>
        /\ \A q \in Reqs \ {r} : req'[q] = req[q] /\ helper'[q] = helper[q]
        /\ req'[r].at = req[r].at /\ req'[r].act = req[r].act
        /\ Flow(p, s)
        /\ IF Learns(p, s) THEN req'[r].ver # 0 ELSE req'[r].ver = req[r].ver
        /\ s = "create" => mode = "docker"
        /\ s \in {"pull", "stat"} => mode # "docker"
        /\ pending' = IF p = "restart" THEN pending \cup {r} ELSE pending
        /\ IF p = "launch" /\ s = "told" THEN helper'[r].pc = "begin"
                                         ELSE helper'[r] = helper[r]
        /\ s \in {"create", "stat", "pull"} => Meets(r)

\* No step takes a reason back.
LEMMA StrayGrows == [Next]_vars => stray \subseteq stray'
<1>1. ASSUME NEW r \in Reqs, Steps(r) PROVE stray \subseteq stray'
  <2>1. CASE \/ MarkBackingUp(r) \/ CreateBackup(r) \/ Gate(r) \/ Resolve(r)
             \/ Guard(r) \/ CheckBegins(r) \/ CheckEnds(r) \/ Guard2(r) \/ GuardBack(r)
    BY <2>1 DEF MarkBackingUp, CreateBackup, Gate, Resolve, Guard, CheckBegins,
                CheckEnds, Guard2, GuardBack, Meets
  <2>2. CASE \/ Pull(r) \/ Fetch(r) \/ Save(r) \/ Note(r) \/ Install(r) \/ Restart(r)
             \/ BackStarts(r) \/ Keep(r) \/ Restore(r) \/ Exec(r)
    BY <2>2 DEF Pull, Fetch, Save, Note, Install, Restart, BackStarts, Keep, Restore, Exec
  <2>3. CASE Create(r) \/ Launch(r) \/ Told(r) \/ Begin(r)
    BY <2>3 DEF Create, Launch, Told, Begin
  <2> QED BY <1>1, <2>1, <2>2, <2>3 DEF Steps
<1>2. ASSUME NEW r \in Reqs, HelperSteps(r) PROVE stray \subseteq stray'
  BY <1>2 DEF HelperSteps, HelperBegins, HelperPulls, HelperRenames, HelperStops,
              HelperCreates, HelperStarts, HelperUndoes, HelperFinishes
<1>3. ASSUME NEW r \in Reqs, Request(r) \/ Track(r) \/ HelperDies(r)
      PROVE  stray \subseteq stray'
  BY <1>3 DEF Request, Track, HelperDies
<1>4. ASSUME NEW c \in Conts, Boot(c) \/ Reconcile(c) \/ Crash(c)
      PROVE  stray \subseteq stray'
  BY <1>4 DEF Boot, Reconcile, Crash
<1>5. CASE Publish \/ UNCHANGED vars
  BY <1>5 DEF Publish, vars
<1> QED BY <1>1, <1>2, <1>3, <1>4, <1>5 DEF Next

\* The steps of a request but the exec.
LEMMA MoveEffect ==
    ASSUME TypeOK, NEW r \in Reqs, Steps(r), ~Exec(r)
    PROVE  Move(r)
<1>1. /\ conts[req[r].at].on = "up" /\ UNCHANGED <<mode, conts>>
  BY DEF Steps, At, MarkBackingUp, CreateBackup, Gate, Resolve, Guard, CheckBegins,
         CheckEnds, Guard2, GuardBack, Pull, Fetch, Save, Note, Install, Restart,
         BackStarts, Keep, Restore, Create, Launch, Told, Begin, env
<1>2. CASE \/ MarkBackingUp(r) \/ CreateBackup(r) \/ Gate(r) \/ Guard(r) \/ CheckBegins(r)
  <2>1. /\ UNCHANGED <<pending, helper>>
        /\ \E s \in {"backup", "gate", "done", "resolve", "guard", "check", "lookup"} :
              Go(r, s) /\ Flow(req[r].pc, s)
    BY <1>2 DEF MarkBackingUp, CreateBackup, Gate, Guard, CheckBegins, Fail, Flow, At
  <2>2. \E s \in Point : /\ Go(r, s) /\ Flow(req[r].pc, s)
                         /\ s \in {"backup", "gate", "done", "resolve", "guard", "check", "lookup"}
                         /\ req[r].pc # "restart"
    BY <2>1 DEF Point, Looking, Flow
  <2>3. /\ Flow(req[r].pc, req'[r].pc) /\ req[r].pc # "restart"
        /\ req'[r].pc \in {"backup", "gate", "done", "resolve", "guard", "check", "lookup"}
        /\ req'[r].at = req[r].at /\ req'[r].act = req[r].act /\ req'[r].ver = req[r].ver
        /\ \A q \in Reqs \ {r} : req'[q] = req[q]
    BY <2>2, GoEffect
  <2> QED BY <1>1, <2>1, <2>3 DEF Move, Learns
<1>3. CASE \/ Pull(r) \/ Fetch(r) \/ Save(r) \/ Note(r) \/ Install(r)
           \/ BackStarts(r) \/ Keep(r) \/ Restore(r)
  <2>1. /\ UNCHANGED <<pending, helper>> /\ req[r].pc \in ByFile \ {"restart"}
        /\ \E s \in {"fetch", "save", "done", "note", "install", "restart", "keep", "restore"} :
              Go(r, s) /\ Flow(req[r].pc, s)
    BY <1>3 DEF Pull, Fetch, Save, Note, Install, BackStarts, Keep, Restore, Flow, At,
                ByFile
  <2>2. \E s \in Point : /\ Go(r, s) /\ Flow(req[r].pc, s)
                         /\ s \notin {"create", "pull", "stat"}
    BY <2>1 DEF Point, ByFile
  <2>3. /\ Flow(req[r].pc, req'[r].pc) /\ req'[r].pc \notin {"create", "pull", "stat"}
        /\ req'[r].at = req[r].at /\ req'[r].act = req[r].act /\ req'[r].ver = req[r].ver
        /\ \A q \in Reqs \ {r} : req'[q] = req[q]
    BY <2>2, GoEffect
  <2>4. req[r].pc \notin {"launch", "resolve", "lookup", "guard", "restart"}
    BY <2>1 DEF ByFile
  <2> QED BY <1>1, <2>1, <2>3, <2>4 DEF Move, Learns
<1>4. CASE Create(r) \/ Told(r) \/ Begin(r) \/ Restart(r)
  <2>1. /\ helper' = helper /\ req[r].pc \in {"create", "told", "begin", "restart"}
        /\ \E s \in {"launch", "done", "begin"} : Go(r, s) /\ Flow(req[r].pc, s)
        /\ pending' = IF req[r].pc = "restart" THEN pending \cup {r} ELSE pending
    BY <1>4 DEF Create, Told, Begin, Restart, Flow, At, Fail
  <2>2. \E s \in Point : /\ Go(r, s) /\ Flow(req[r].pc, s) /\ s \in {"launch", "done", "begin"}
    BY <2>1 DEF Point, ByHelper
  <2>3. /\ Flow(req[r].pc, req'[r].pc) /\ req'[r].pc \in {"launch", "done", "begin"}
        /\ req'[r].at = req[r].at /\ req'[r].act = req[r].act /\ req'[r].ver = req[r].ver
        /\ \A q \in Reqs \ {r} : req'[q] = req[q]
    BY <2>2, GoEffect
  <2> QED BY <1>1, <2>1, <2>3 DEF Move, Learns
<1>5. CASE Launch(r)
  <2>1. /\ pending' = pending /\ req[r].pc = "launch"
        /\ \/ Go(r, "told") /\ helper' = [helper EXCEPT ![r].pc = "begin"]
           \/ Go(r, "done") /\ helper' = helper
    BY <1>5 DEF Launch, At, Fail
  <2>2. "told" \in Point /\ "done" \in Point
    BY DEF Point, ByHelper
  <2>3. /\ req'[r].pc \in {"told", "done"}
        /\ req'[r].at = req[r].at /\ req'[r].act = req[r].act /\ req'[r].ver = req[r].ver
        /\ \A q \in Reqs \ {r} : req'[q] = req[q]
    BY <2>1, <2>2, GoEffect
  <2>4. /\ \A q \in Reqs \ {r} : helper'[q] = helper[q]
        /\ IF req'[r].pc = "told" THEN helper'[r].pc = "begin" ELSE helper'[r] = helper[r]
    <3>1. ~(Go(r, "told") /\ req'[r].pc = "done") /\ ~(Go(r, "done") /\ req'[r].pc = "told")
      BY <2>2, GoEffect
    <3> QED BY <2>1, <2>3, <3>1 DEF TypeOK, Working
  <2> QED BY <1>1, <2>1, <2>3, <2>4 DEF Move, Learns, Flow
<1>6. CASE Guard2(r) \/ GuardBack(r)
  <2>1. UNCHANGED <<pending, helper>> /\ Meets(r) /\ req[r].pc \in {"guard", "guard2"}
    BY <1>6 DEF Guard2, GuardBack, At
  <2>2. /\ \A q \in Reqs \ {r} : req'[q] = req[q]
        /\ req'[r].at = req[r].at /\ req'[r].act = req[r].act
        /\ \/ req'[r].pc = "done" /\ req'[r].ver = req[r].ver
           \/ /\ req[r].pc = "guard2" /\ req'[r].ver = req[r].ver
              /\ req'[r].pc = IF mode = "docker" THEN "create" ELSE "pull"
           \/ /\ req[r].pc = "guard" /\ req'[r].ver # 0
              /\ req'[r].pc = IF mode = "docker" THEN "create" ELSE "stat"
    <3>1. {"done", "create", "stat", "pull"} \subseteq Point
      BY DEF Point, ByFile, ByHelper
    <3>2. st.previous \in 0 .. MaxVersion
      BY DEF TypeOK, StateFile
    <3>3. CASE Go(r, "done")
      BY <3>1, <3>3, GoEffect
    <3>4. CASE req[r].pc = "guard2" /\ Go(r, IF mode = "docker" THEN "create" ELSE "pull")
      BY <3>1, <3>4, GoEffect
    <3>5. CASE /\ req[r].pc = "guard" /\ st.previous # 0
               /\ GoFor(r, IF mode = "docker" THEN "create" ELSE "stat", st.previous)
      <4>1. (IF mode = "docker" THEN "create" ELSE "stat") \in Point
        BY <3>1
      <4> QED BY <3>2, <3>5, <4>1, VersionEffect
    <3> QED BY <1>6, <3>3, <3>4, <3>5 DEF Guard2, GuardBack, Fail, At
  <2> QED BY <1>1, <2>1, <2>2 DEF Move, Learns, Flow
<1>7. CASE Resolve(r) \/ CheckEnds(r)
  <2>1. /\ UNCHANGED <<pending, helper>> /\ req[r].pc \in {"resolve", "lookup"}
        /\ \/ Go(r, "done")
           \/ \E v \in 1 .. latest : GoFor(r, "guard2", v)
    <3>1. latest \in 1 .. latest
      BY UpdaterAssumption DEF TypeOK, Version
    <3> QED BY <1>7, <3>1 DEF Resolve, CheckEnds, At
  <2>2. "guard2" \in Point /\ "done" \in Point
    BY DEF Point, Looking
  <2>3. \A v \in 1 .. latest : v \in 0 .. MaxVersion /\ v # 0
    BY UpdaterAssumption DEF TypeOK, Version
  <2>4. /\ \A q \in Reqs \ {r} : req'[q] = req[q]
        /\ req'[r].at = req[r].at /\ req'[r].act = req[r].act
        /\ \/ req'[r].pc = "done" /\ req'[r].ver = req[r].ver
           \/ req'[r].pc = "guard2" /\ req'[r].ver # 0
    <3>1. CASE Go(r, "done")
      BY <2>2, <3>1, GoEffect
    <3>2. ASSUME NEW v \in 1 .. latest, GoFor(r, "guard2", v)
          PROVE  /\ \A q \in Reqs \ {r} : req'[q] = req[q]
                 /\ req'[r].at = req[r].at /\ req'[r].act = req[r].act
                 /\ req'[r].pc = "guard2" /\ req'[r].ver # 0
      BY <2>2, <2>3, <3>2, VersionEffect
    <3> QED BY <2>1, <3>1, <3>2
  <2> QED BY <1>1, <2>1, <2>4 DEF Move, Learns, Flow
<1> QED BY <1>2, <1>3, <1>4, <1>5, <1>6, <1>7 DEF Steps

\* Where a helper can go on from h, its death included.
HelperFlow(h, g) ==
    \/ h = "begin"  /\ g \in {"pull", "off"}
    \/ h = "pull"   /\ g \in {"rename", "off"}
    \/ h = "rename" /\ g \in {"stop", "off"}
    \/ h = "stop"   /\ g \in {"new", "undo", "off"}
    \/ h = "new"    /\ g \in {"start", "undo", "off"}
    \/ h = "start"  /\ g \in {"finish", "undo", "off"}
    \/ h \in {"undo", "finish"} /\ g = "off"

\* A container that serves, or does not, what it has served.
Same(c) == conts'[c].on = conts[c].on /\ conts'[c].ver = conts[c].ver

\* An undoing: the helper dies, or the replacement may go and the container that
\* ran before is started unless it runs.
Undoing(r) ==
    LET old == req[r].at
    IN  \/ "crash" \in stray' /\ \A c \in Conts : Same(c)
        \/ /\ \A c \in Conts \ {r, old} : Same(c)
           /\ Same(r) \/ conts'[r].on = "absent"
           /\ \/ Same(old) /\ (conts[old].on \notin Live => "undo" \in stray')
              \/ /\ conts[old].on = "off" /\ conts'[old].on = "boot"
                 /\ conts'[old].ver = conts[old].ver

\* A helper that goes on, for whoever looks at requests, helpers and containers.
HelperMove(r) ==
    LET h   == helper[r].pc
        g   == helper'[r].pc
        old == req[r].at
    IN  /\ mode' = mode
        /\ \A q \in Reqs \ {r} : helper'[q] = helper[q]
        /\ HelperFlow(h, g)
        /\ g = "new" =>
              /\ conts[old].on \in Live /\ Forget(old)
              /\ conts'[old].on = "off" /\ conts'[old].ver = conts[old].ver
              /\ \A c \in Conts \ {old} : Same(c)
        /\ g # "new" => UNCHANGED <<req, pending, cur, trk>>
        /\ g = "start" =>
              /\ conts'[r].on = "off" /\ conts'[r].ver = req[r].ver
              /\ \A c \in Conts \ {r} : Same(c)
        /\ g = "finish" =>
              /\ conts'[r].on = "boot" /\ conts'[r].ver = conts[r].ver
              /\ \A c \in Conts \ {r} : Same(c)
        /\ h = "undo" => Undoing(r)
        /\ h = "finish" =>
              /\ \A c \in Conts \ {old} : Same(c)
              /\ \/ Same(old)
                 \/ conts[old].on = "off" /\ conts'[old].on = "absent"
        /\ g \notin {"new", "start", "finish"} /\ h \notin {"undo", "finish"} =>
              \A c \in Conts : Same(c)
        /\ g = "off" /\ h \notin {"begin", "pull", "rename", "undo", "finish"} =>
              "crash" \in stray'

LEMMA HelperMoveEffect ==
    ASSUME TypeOK, NEW r \in Reqs, req[r].at # r, HelperSteps(r) \/ HelperDies(r)
    PROVE  HelperMove(r)
<1>1. mode' = mode
  BY DEF HelperSteps, HelperBegins, HelperPulls, HelperRenames, HelperStops, HelperDies,
         HelperCreates, HelperStarts, HelperUndoes, HelperFinishes, env
<1>2. /\ req[r].at \in Conts /\ r \in Conts
      /\ \A c \in Conts : conts[c] \in Container
      /\ helper[r].pc \in HelperPoint
  BY DEF TypeOK, Asking, Conts, Working
<1>3. conts' = conts => \A c \in Conts : Same(c)
  BY DEF Same
<1>4. /\ {"off", "begin", "pull", "rename", "stop"} \subseteq HelperPoint
      /\ {"new", "start", "undo", "finish"} \subseteq HelperPoint
  BY DEF HelperPoint
<1>5. CASE HelperDies(r)
  <2>1. /\ helper[r].pc # "off" /\ helper'[r].pc = "off"
        /\ \A q \in Reqs \ {r} : helper'[q] = helper[q]
    BY <1>4, <1>5, HelperEffect DEF HelperDies
  <2>2. HelperFlow(helper[r].pc, "off")
    BY <1>2, <2>1 DEF HelperPoint, HelperFlow
  <2>3. UNCHANGED <<req, pending, cur, trk, conts>> /\ "crash" \in stray'
    BY <1>5 DEF HelperDies, tracks
  <2> QED BY <1>1, <1>2, <1>3, <2>1, <2>2, <2>3 DEF HelperMove, Undoing
<1>6. CASE HelperBegins(r) \/ HelperPulls(r)
  <2>1. \E g \in {"pull", "rename", "off"} : /\ HelperGo(r, g)
                                             /\ HelperFlow(helper[r].pc, g)
                                             /\ helper[r].pc \in {"begin", "pull"}
    BY <1>6 DEF HelperBegins, HelperPulls, HelperFails, HelperAt, HelperFlow
  <2>2. /\ HelperFlow(helper[r].pc, helper'[r].pc)
        /\ helper[r].pc \in {"begin", "pull"} /\ helper'[r].pc \in {"pull", "rename", "off"}
        /\ \A q \in Reqs \ {r} : helper'[q] = helper[q]
    BY <1>4, <2>1, HelperEffect
  <2>3. UNCHANGED <<req, pending, cur, trk, conts>>
    BY <1>6 DEF HelperBegins, HelperPulls, tracks
  <2> QED BY <1>1, <1>3, <2>2, <2>3 DEF HelperMove
<1>7. CASE HelperRenames(r)
  <2>1. UNCHANGED <<req, pending, cur, trk>> /\ helper[r].pc = "rename"
    BY <1>7 DEF HelperRenames, tracks, HelperAt
  <2>2. \A c \in Conts : Same(c)
    BY <1>2, <1>7 DEF HelperRenames, Same, TypeOK, Container
  <2>3. /\ helper'[r].pc \in {"stop", "off"}
        /\ \A q \in Reqs \ {r} : helper'[q] = helper[q]
    <3>1. CASE HelperFails(r)
      BY <1>4, <3>1, HelperEffect DEF HelperFails
    <3>2. CASE helper' = [helper EXCEPT ![r].pc = "stop",
                                        ![r].orig = conts[req[r].at].name]
      BY <3>2 DEF TypeOK, Working
    <3> QED BY <1>7, <3>1, <3>2 DEF HelperRenames
  <2> QED BY <1>1, <2>1, <2>2, <2>3 DEF HelperMove, HelperFlow
<1>8. CASE HelperStops(r)
  <2>1. CASE /\ conts[req[r].at].on \in Live
             /\ conts' = [conts EXCEPT ![req[r].at].on = "off"]
             /\ Forget(req[r].at)
             /\ HelperGo(r, "new")
    <3>1. helper[r].pc = "stop" /\ helper'[r].pc = "new"
          /\ \A q \in Reqs \ {r} : helper'[q] = helper[q]
      BY <1>4, <1>8, <2>1, HelperEffect DEF HelperStops, HelperAt
    <3>2. /\ conts'[req[r].at].on = "off" /\ conts'[req[r].at].ver = conts[req[r].at].ver
          /\ \A c \in Conts \ {req[r].at} : Same(c)
      BY <1>2, <2>1 DEF TypeOK, Same, Container
    <3> QED BY <1>1, <2>1, <3>1, <3>2 DEF HelperMove, HelperFlow
  <2>2. CASE HelperGo(r, "undo") /\ UNCHANGED <<conts, req, cur, trk, pending>>
    <3>1. helper[r].pc = "stop" /\ helper'[r].pc = "undo"
          /\ \A q \in Reqs \ {r} : helper'[q] = helper[q]
      BY <1>4, <1>8, <2>2, HelperEffect DEF HelperStops, HelperAt
    <3> QED BY <1>1, <1>3, <2>2, <3>1 DEF HelperMove, HelperFlow
  <2> QED BY <1>8, <2>1, <2>2 DEF HelperStops
<1>9. CASE HelperCreates(r) \/ HelperStarts(r)
  <2>1. UNCHANGED <<req, pending, cur, trk>>
    BY <1>9 DEF HelperCreates, HelperStarts, tracks
  <2>2. CASE HelperGo(r, "undo") /\ UNCHANGED conts
    <3>1. helper[r].pc \in {"new", "start"} /\ helper'[r].pc = "undo"
          /\ \A q \in Reqs \ {r} : helper'[q] = helper[q]
      BY <1>4, <1>9, <2>2, HelperEffect DEF HelperCreates, HelperStarts, HelperAt
    <3> QED BY <1>1, <1>3, <2>1, <2>2, <3>1 DEF HelperMove, HelperFlow
  <2>3. CASE /\ HelperCreates(r) /\ HelperGo(r, "start")
             /\ conts' = [conts EXCEPT ![r] = [ver |-> req[r].ver, name |-> helper[r].orig,
                                               on |-> "off"]]
    <3>1. helper[r].pc = "new" /\ helper'[r].pc = "start"
          /\ \A q \in Reqs \ {r} : helper'[q] = helper[q]
      BY <1>4, <2>3, HelperEffect DEF HelperCreates, HelperAt
    <3>2. /\ conts'[r].on = "off" /\ conts'[r].ver = req[r].ver
          /\ \A c \in Conts \ {r} : Same(c)
      BY <1>2, <2>3 DEF TypeOK, Same
    <3> QED BY <1>1, <2>1, <3>1, <3>2 DEF HelperMove, HelperFlow
  <2>4. CASE /\ HelperStarts(r) /\ HelperGo(r, "finish")
             /\ conts' = [conts EXCEPT ![r].on = "boot"]
    <3>1. helper[r].pc = "start" /\ helper'[r].pc = "finish"
          /\ \A q \in Reqs \ {r} : helper'[q] = helper[q]
      BY <1>4, <2>4, HelperEffect DEF HelperStarts, HelperAt
    <3>2. /\ conts'[r].on = "boot" /\ conts'[r].ver = conts[r].ver
          /\ \A c \in Conts \ {r} : Same(c)
      BY <1>2, <2>4 DEF TypeOK, Same, Container
    <3> QED BY <1>1, <2>1, <3>1, <3>2 DEF HelperMove, HelperFlow
  <2> QED BY <1>9, <2>2, <2>3, <2>4 DEF HelperCreates, HelperStarts
<1>10. CASE HelperUndoes(r)
  <2>1. UNCHANGED <<req, pending, cur, trk>> /\ helper[r].pc = "undo"
    BY <1>10 DEF HelperUndoes, tracks, HelperAt
  <2>2. helper'[r].pc = "off" /\ \A q \in Reqs \ {r} : helper'[q] = helper[q]
    BY <1>4, <1>10, HelperEffect DEF HelperUndoes, HelperFails
  <2>3. Undoing(r)
    <3>1. PICK gone, named, started \in BOOLEAN :
            /\ conts' = Undone(r, gone, named, started)
            /\ started => conts[req[r].at].on # "absent"
            /\ stray' = IF started THEN stray ELSE stray \cup {"undo"}
      BY <1>10 DEF HelperUndoes
    <3>2. \A c \in Conts \ {r, req[r].at} : Same(c)
      BY <3>1, UndoneEffect DEF Same
    <3>3. Same(r) \/ conts'[r].on = "absent"
      BY <1>2, <3>1, UndoneEffect DEF Same
    <3>4. /\ conts'[req[r].at].ver = conts[req[r].at].ver
          /\ \/ conts'[req[r].at].on = conts[req[r].at].on
             \/ conts[req[r].at].on = "off" /\ conts'[req[r].at].on = "boot"
          /\ started /\ conts[req[r].at].on = "off" => conts'[req[r].at].on = "boot"
      BY <1>2, <3>1, UndoneEffect
    <3>5. started => conts[req[r].at].on \in Live \cup {"off"}
      BY <1>2, <3>1 DEF Container
    <3>6. "boot" # "off"
      OBVIOUS
    <3> QED BY <3>1, <3>2, <3>3, <3>4, <3>5, <3>6 DEF Undoing, Same
  <2> QED BY <1>1, <2>1, <2>2, <2>3 DEF HelperMove, HelperFlow
<1>11. CASE HelperFinishes(r)
  <2>1. UNCHANGED <<req, pending, cur, trk>> /\ helper[r].pc = "finish"
    BY <1>11 DEF HelperFinishes, tracks, HelperAt
  <2>2. helper'[r].pc = "off" /\ \A q \in Reqs \ {r} : helper'[q] = helper[q]
    BY <1>4, <1>11, HelperEffect DEF HelperFinishes
  <2>3. /\ \A c \in Conts \ {req[r].at} : Same(c)
        /\ \/ Same(req[r].at)
           \/ conts[req[r].at].on = "off" /\ conts'[req[r].at].on = "absent"
    BY <1>2, <1>11 DEF HelperFinishes, TypeOK, Same
  <2> QED BY <1>1, <2>1, <2>2, <2>3 DEF HelperMove, HelperFlow
<1> QED BY <1>5, <1>6, <1>7, <1>8, <1>9, <1>10, <1>11 DEF HelperSteps

\* A new request is at a server that answers.
Asks(r) ==
    /\ UNCHANGED <<mode, st, conts, helper, pending, stray>>
    /\ \A q \in Reqs \ {r} : req'[q] = req[q]
    /\ req[r].pc = "unused" /\ req'[r].pc \in {"mark", "check", "gate"}
    /\ req'[r].pc = "mark" => req'[r].act = "apply"
    /\ req'[r].at \in Conts /\ conts[req'[r].at].on = "up"

LEMMA AskEffect ==
    ASSUME TypeOK, NEW r \in Reqs, Request(r)
    PROVE  Asks(r)
<1>1. PICK c \in Conts, a \in Acts :
        /\ req[r].pc = "unused" /\ conts[c].on = "up"
        /\ req' = [req EXCEPT ![r] =
                 [pc  |-> CASE a = "apply" -> "mark" [] a = "check" -> "check"
                            [] OTHER -> "gate",
                  act |-> a, ver |-> 0, at |-> c]]
  BY DEF Request
<1>2. UNCHANGED <<mode, st, conts, helper, pending, stray>>
  BY DEF Request, env
<1>3. /\ req'[r].pc \in {"mark", "check", "gate"} /\ req'[r].at = c
      /\ req'[r].pc = "mark" => req'[r].act = "apply"
  BY <1>1 DEF TypeOK
<1>4. \A q \in Reqs \ {r} : req'[q] = req[q]
  BY <1>1 DEF TypeOK
<1> QED BY <1>1, <1>2, <1>3, <1>4 DEF Asks

\* An exec fails, or the file takes the place of the process.
Execs(r) ==
    /\ r \in pending /\ UNCHANGED <<mode, exe, helper>>
    /\ \/ /\ UNCHANGED <<conts, req, cur, trk>> /\ pending' = pending \ {r}
          /\ st' = Failure /\ "exec" \in stray'
       \/ /\ exe # 0 /\ Forget(Home) /\ st' = st
          /\ conts'[Home].on = "boot" /\ conts'[Home].ver = exe
          /\ \A c \in Conts \ {Home} : Same(c)
          /\ (\E q \in Reqs : req[q].pc \notin {"unused", "begin", "done"}) =>
                "killed" \in stray'

LEMMA ExecEffect ==
    ASSUME TypeOK, NEW r \in Reqs, Exec(r)
    PROVE  Execs(r)
<1>1. /\ r \in pending /\ UNCHANGED <<mode, exe, helper>>
  BY DEF Exec, env, files
<1>2. CASE /\ st' = Failure /\ pending' = pending \ {r}
           /\ UNCHANGED <<conts, req, cur, trk>> /\ stray' = stray \cup {"exec"}
  BY <1>1, <1>2 DEF Execs
<1>3. CASE /\ exe # 0 /\ Forget(Home) /\ st' = st
           /\ conts' = [conts EXCEPT ![Home].ver = exe, ![Home].on = "boot"]
           /\ stray' = IF \E q \in Reqs : req[q].pc \notin {"unused", "begin", "done"}
                       THEN stray \cup {"killed"} ELSE stray
  <2>1. /\ conts'[Home].on = "boot" /\ conts'[Home].ver = exe
        /\ \A c \in Conts \ {Home} : Same(c)
    BY <1>3 DEF TypeOK, Container, Conts, Same
  <2> QED BY <1>1, <1>3, <2>1 DEF Execs
<1> QED BY <1>2, <1>3 DEF Exec

\* A server reads the file, closes the rows, or dies and is started again.
Serves(c) ==
    /\ UNCHANGED <<mode, exe, helper>>
    /\ \A d \in Conts \ {c} : Same(d)
    /\ \/ /\ conts[c].on = "boot" /\ conts'[c].on = "wired" /\ conts'[c].ver = conts[c].ver
          /\ UNCHANGED <<req, pending, cur, trk>>
       \/ /\ conts[c].on = "wired" /\ conts'[c].on = "up" /\ conts'[c].ver = conts[c].ver
          /\ UNCHANGED <<req, pending, cur, trk>>
       \/ /\ conts[c].on \in Live /\ Forget(c) /\ "crash" \in stray'
          /\ conts'[c].ver = IF mode = "binary" THEN exe ELSE conts[c].ver
          /\ conts'[c].on = IF conts'[c].ver = 0 THEN "off" ELSE "boot"

LEMMA ServeEffect ==
    ASSUME TypeOK, NEW c \in Conts, Boot(c) \/ Reconcile(c) \/ Crash(c)
    PROVE  Serves(c)
<1>1. UNCHANGED <<mode, exe, helper>>
  BY DEF Boot, Reconcile, Crash, env, files
<1>2. CASE Boot(c)
  <2>1. /\ conts[c].on = "boot" /\ conts'[c].on = "wired" /\ conts'[c].ver = conts[c].ver
        /\ UNCHANGED <<req, pending, cur, trk>> /\ \A d \in Conts \ {c} : Same(d)
    BY <1>2 DEF Boot, TypeOK, Container, Same, tracks
  <2> QED BY <1>1, <2>1 DEF Serves
<1>3. CASE Reconcile(c)
  <2>1. /\ conts[c].on = "wired" /\ conts'[c].on = "up" /\ conts'[c].ver = conts[c].ver
        /\ UNCHANGED <<req, pending, cur, trk>> /\ \A d \in Conts \ {c} : Same(d)
    BY <1>3 DEF Reconcile, TypeOK, Container, Same
  <2> QED BY <1>1, <2>1 DEF Serves
<1>4. CASE Crash(c)
  <2>1. conts[c].on \in Live /\ Forget(c) /\ "crash" \in stray'
    BY <1>4 DEF Crash
  <2> DEFINE v == IF mode = "binary" THEN exe ELSE conts[c].ver
             e == [conts[c] EXCEPT !.on = IF v = 0 THEN "off" ELSE "boot", !.ver = v]
  <2>2. conts' = [conts EXCEPT ![c] = e]
    BY <1>4 DEF Crash, TypeOK
  <2>3. e.ver = v /\ e.on = IF v = 0 THEN "off" ELSE "boot"
    BY DEF TypeOK, Container
  <2> HIDE DEF e
  <2>4. conts'[c] = e /\ \A d \in Conts \ {c} : Same(d)
    BY <2>2 DEF TypeOK, Same
  <2> QED BY <1>1, <2>1, <2>3, <2>4 DEF Serves
<1> QED BY <1>2, <1>3, <1>4

\* The steps that touch neither requests, helpers nor containers.
Rests == UNCHANGED <<mode, st, exe, conts, req, pending, helper, stray>>

\* Every step is of one of these kinds.
LEMMA Kinds ==
    ASSUME TypeOK, Births, [Next]_vars
    PROVE  \/ Rests
           \/ \E r \in Reqs : Request(r) /\ Asks(r)
           \/ \E r \in Reqs : Steps(r) /\ Move(r)
           \/ \E r \in Reqs : Exec(r) /\ Execs(r)
           \/ \E r \in Reqs : (HelperSteps(r) \/ HelperDies(r)) /\ HelperMove(r)
           \/ \E c \in Conts : (Boot(c) \/ Reconcile(c) \/ Crash(c)) /\ Serves(c)
<1>1. CASE Publish \/ UNCHANGED vars \/ \E r \in Reqs : Track(r)
  BY <1>1 DEF Publish, vars, Track, Rests, files, env
<1>2. ASSUME NEW r \in Reqs, Steps(r)
      PROVE  Move(r) \/ (Exec(r) /\ Execs(r))
  BY <1>2, MoveEffect, ExecEffect
<1>3. ASSUME NEW r \in Reqs, HelperSteps(r) \/ HelperDies(r)
      PROVE  HelperMove(r)
  <2>1. req[r].at # r
    BY DEF Births
  <2> QED BY <1>3, <2>1, HelperMoveEffect
<1> QED BY <1>1, <1>2, <1>3, AskEffect, ServeEffect DEF Next

-----------------------------------------------------------------------------
(* Who is where: deployments, versions, replacements, and who meets whom.  *)

\* A step that only forgets requests takes nobody past a look at the status.
LEMMA ForgetInstalls ==
    ASSUME TypeOK, NEW c \in Conts, Forget(c), NEW q \in Reqs, helper'[q] = helper[q]
    PROVE  /\ Installing(q)' => Installing(q)
           /\ Unborn(q)' => Unborn(q)
           /\ req'[q].pc = req[q].pc \/ req'[q].pc = "done"
<1>1. /\ req'[q].pc = req[q].pc \/ req'[q].pc = "done"
      /\ q \in pending' => q \in pending
  BY ForgetEffect
<1>2. "done" \notin Looking \cup ByFile \cup ByHelper \cup {"unused", "create", "launch"}
  BY DEF Looking, ByFile, ByHelper
<1> QED BY <1>1, <1>2 DEF Installing, Unborn

LEMMA WaysStep ==
    ASSUME TypeOK, Ways, Births, [Next]_vars
    PROVE  Ways'
<1>1. CASE Rests
  BY <1>1 DEF Rests, Ways
<1>2. ASSUME NEW r \in Reqs, Asks(r) PROVE Ways'
  <2>1. \A q \in Reqs : /\ helper'[q] = helper[q]
                        /\ q \in pending' <=> q \in pending
                        /\ q # r => req'[q] = req[q]
    BY <1>2 DEF Asks
  <2>2. mode = "binary" => req'[r].at = Home
    BY <1>2 DEF Asks, Ways, Conts
  <2>3. /\ r \notin pending /\ helper[r].pc = "off"
        /\ req'[r].pc \notin ByFile \cup ByHelper \cup {"backup"}
    BY <1>2 DEF Asks, Ways, ByFile, ByHelper
  <2>4. UNCHANGED <<mode, conts, pending>> /\ (req'[r].pc = "mark" => req'[r].act = "apply")
    BY <1>2 DEF Asks
  <2> QED BY <2>1, <2>2, <2>3, <2>4 DEF Ways
<1>3. ASSUME NEW r \in Reqs, Move(r) PROVE Ways'
  <2> DEFINE p == req[r].pc
             s == req'[r].pc
  <2>1. /\ UNCHANGED <<mode, conts>>
        /\ \A q \in Reqs \ {r} : req'[q] = req[q] /\ helper'[q] = helper[q]
        /\ req'[r].at = req[r].at /\ req'[r].act = req[r].act
        /\ Flow(p, s)
        /\ s = "create" => mode = "docker"
        /\ s \in {"pull", "stat"} => mode # "docker"
        /\ pending' = IF p = "restart" THEN pending \cup {r} ELSE pending
        /\ IF p = "launch" /\ s = "told" THEN helper'[r].pc = "begin"
                                         ELSE helper'[r] = helper[r]
    BY <1>3 DEF Move
  <2>2. mode = "binary" => s \notin ByHelper /\ helper'[r].pc = "off" /\ req'[r].at = Home
    BY <2>1 DEF Ways, Flow, ByHelper
  <2>3. mode = "docker" => s \notin ByFile /\ pending' = {}
    BY <2>1 DEF Ways, Flow, ByFile
  <2>4. r \in pending' => s \in {"begin", "done"}
    BY <2>1 DEF Ways, Flow
  <2>5. helper'[r].pc # "off" => s \in {"told", "begin", "done"}
    BY <2>1 DEF Ways, Flow
  <2>6. s \in {"mark", "backup"} => req'[r].act = "apply"
    BY <2>1 DEF Ways, Flow
  <2>7. \A q \in Reqs \ {r} : q \in pending' <=> q \in pending
    BY <2>1
  <2> HIDE DEF s, p
  <2> QED BY <2>1, <2>2, <2>3, <2>4, <2>5, <2>6, <2>7 DEF Ways, s
<1>4. ASSUME NEW r \in Reqs, Execs(r) PROVE Ways'
  <2>1. mode # "docker" /\ UNCHANGED <<mode, helper>> /\ Home \notin Reqs
    BY <1>4, UpdaterAssumption DEF Execs, Ways
  <2>2. CASE UNCHANGED <<conts, req>> /\ pending' = pending \ {r}
    BY <2>1, <2>2 DEF Ways
  <2>3. CASE Forget(Home) /\ \A c \in Conts \ {Home} : Same(c)
    <3>1. Home \in Conts /\ \A q \in Reqs : q \in Conts \ {Home}
      BY <2>1 DEF Conts
    <3>2. \A q \in Reqs : /\ req'[q].at = req[q].at /\ req'[q].act = req[q].act
                          /\ req'[q].pc = req[q].pc \/ req'[q].pc = "done"
                          /\ q \in pending' => q \in pending
                          /\ conts'[q].on = conts[q].on
      BY <2>1, <2>3, <3>1, ForgetEffect, ForgetInstalls DEF Same
    <3>3. "done" \notin ByHelper
      BY DEF ByHelper
    <3> QED BY <2>1, <3>2, <3>3 DEF Ways
  <2> QED BY <1>4, <2>2, <2>3 DEF Execs
<1>5. ASSUME NEW r \in Reqs, HelperMove(r) PROVE Ways'
  <2>1. /\ mode # "binary" /\ mode' = mode
        /\ \A q \in Reqs \ {r} : helper'[q] = helper[q]
        /\ helper[r].pc # "off"
    BY <1>5 DEF HelperMove, HelperFlow, Ways
  <2>2. CASE UNCHANGED <<req, pending>>
    BY <2>1, <2>2 DEF Ways
  <2>3. CASE Forget(req[r].at)
    <3>1. req[r].at \in Conts
      BY DEF TypeOK, Asking
    <3>2. \A q \in Reqs : /\ req'[q].act = req[q].act
                          /\ req'[q].pc \in {req[q].pc, "done"}
                          /\ q \in pending' => q \in pending
      BY <2>3, <3>1, ForgetEffect
    <3>3. "done" \notin ByFile
      BY DEF ByFile
    <3>4. \A q \in Reqs : helper[q].pc = "off" => helper'[q].pc = "off"
      BY <2>1
    <3>5. pending' \subseteq pending
      BY <2>3, <3>1, ForgetEffect
    <3> QED BY <2>1, <3>2, <3>3, <3>4, <3>5 DEF Ways
  <2> QED BY <1>5, <2>2, <2>3 DEF HelperMove
<1>6. ASSUME NEW c \in Conts, Serves(c) PROVE Ways'
  <2>1. UNCHANGED <<mode, helper>>
    BY <1>6 DEF Serves
  <2>2. mode = "binary" => \A q \in Reqs : conts'[q].on = "absent"
    BY <1>6 DEF Serves, Ways, Conts, Same, Live
  <2>3. CASE UNCHANGED <<req, pending>>
    BY <2>1, <2>2, <2>3 DEF Ways
  <2>4. CASE Forget(c)
    <3>1. \A q \in Reqs : /\ req'[q].at = req[q].at /\ req'[q].act = req[q].act
                          /\ req'[q].pc \in {req[q].pc, "done"}
                          /\ q \in pending' => q \in pending
      BY <2>4, ForgetEffect
    <3>2. "done" \notin ByHelper \cup ByFile
      BY DEF ByHelper, ByFile
    <3>3. pending' \subseteq pending
      BY <2>4, ForgetEffect
    <3> QED BY <2>1, <2>2, <3>1, <3>2, <3>3 DEF Ways
  <2> QED BY <1>6, <2>3, <2>4 DEF Serves
<1> QED BY <1>1, <1>2, <1>3, <1>4, <1>5, <1>6, Kinds

\* The containers only change where a step says.
LEMMA HelperVersions ==
    ASSUME TypeOK, Ways, Births, Versions, NEW r \in Reqs, HelperMove(r),
           NEW c \in Conts, conts'[c].on \in Live \cup {"off"}
    PROVE  conts'[c].ver # 0
<1>1. mode = "docker" /\ helper[r].pc # "off"
  BY UpdaterAssumption DEF HelperMove, HelperFlow, Ways, TypeOK
<1>2. \A d \in Conts : conts[d].on \in Live \cup {"off"} => conts[d].ver # 0
  BY <1>1 DEF Versions
<1>3. req[r].at \in Conts /\ r \in Conts /\ req[r].ver # 0 /\ req[r].at # r
  BY <1>1 DEF TypeOK, Asking, Conts, Versions, Installing, Births
<1>4. Same(c) => conts'[c].ver # 0
  BY <1>2 DEF Same
<1>5. "absent" \notin Live \cup {"off"}
  BY DEF Live
<1> DEFINE h == helper[r].pc
           g == helper'[r].pc
<1>6. CASE g = "new"
  BY <1>2, <1>3, <1>4, <1>6 DEF HelperMove
<1>7. CASE g = "start"
  BY <1>3, <1>4, <1>7 DEF HelperMove
<1>8. CASE g = "finish"
  <2>1. h = "start"
    BY <1>8 DEF HelperMove, HelperFlow
  <2>2. conts[r].on = "off"
    BY <1>1, <2>1 DEF Births, Unborn
  <2> QED BY <1>2, <1>3, <1>4, <1>8, <2>2 DEF HelperMove
<1>9. CASE h = "undo"
  BY <1>2, <1>3, <1>4, <1>5, <1>9 DEF HelperMove, Undoing
<1>10. CASE h = "finish"
  BY <1>2, <1>3, <1>4, <1>5, <1>10 DEF HelperMove
<1>11. CASE g \notin {"new", "start", "finish"} /\ h \notin {"undo", "finish"}
  BY <1>4, <1>11 DEF HelperMove
<1> QED BY <1>6, <1>7, <1>8, <1>9, <1>10, <1>11

LEMMA VersionsStep ==
    ASSUME TypeOK, Ways, Births, Versions, [Next]_vars
    PROVE  Versions'
<1> DEFINE Serving == IF mode = "docker" THEN Live \cup {"off"} ELSE Live
           A == \A c \in Conts : conts[c].on \in Serving => conts[c].ver # 0
           B(r) == Installing(r) \/ req[r].pc = "guard2" => req[r].ver # 0
           C(r) == helper[r].pc \in {"start", "finish"} /\ conts[r].on # "absent" =>
                      conts[r].ver = req[r].ver
<1>0. /\ Versions <=> A /\ \A r \in Reqs : B(r) /\ C(r)
      /\ Versions' <=> A' /\ \A r \in Reqs : B(r)' /\ C(r)'
  BY DEF Versions
<1>a. Reqs \subseteq Conts /\ Home \in Conts /\ \A r \in Reqs : req[r].at \in Conts
  BY DEF Conts, TypeOK, Asking
<1>b. mode = "docker" \/ mode = "binary"
  BY UpdaterAssumption DEF TypeOK
<1>1. CASE Rests
  BY <1>1 DEF Rests, Versions, Installing
<1>2. ASSUME NEW r \in Reqs, Asks(r) PROVE Versions'
  <2>1. A'
    BY <1>0, <1>2 DEF Asks
  <2>2. ASSUME NEW q \in Reqs PROVE B(q)' /\ C(q)'
    <3>1. CASE q # r
      BY <1>0, <1>2, <3>1 DEF Asks, Installing
    <3>2. CASE q = r
      <4>1. helper'[r].pc = "off" /\ r \notin pending' /\ req'[r].pc \in {"mark", "check", "gate"}
        BY <1>2 DEF Asks, Ways
      <4> QED BY <3>2, <4>1 DEF Installing, ByFile, ByHelper
    <3> QED BY <3>1, <3>2
  <2> QED BY <1>0, <2>1, <2>2
<1>3. ASSUME NEW r \in Reqs, Move(r) PROVE Versions'
  <2>1. A'
    BY <1>0, <1>3 DEF Move
  <2>2. ASSUME NEW q \in Reqs \ {r} PROVE B(q)' /\ C(q)'
    <3>1. UNCHANGED <<req[q], helper[q], conts>> /\ (q \in pending' <=> q \in pending)
      BY <1>3 DEF Move
    <3> QED BY <1>0, <3>1 DEF Installing
  <2>3. B(r)'
    <3>1. CASE Learns(req[r].pc, req'[r].pc)
      BY <1>3, <3>1 DEF Move
    <3>2. CASE ~Learns(req[r].pc, req'[r].pc)
      <4>1. req'[r].ver = req[r].ver
        BY <1>3, <3>2 DEF Move
      <4>2. (Installing(r) \/ req[r].pc = "guard2")' => Installing(r) \/ req[r].pc = "guard2"
        BY <1>3, <3>2 DEF Move, Learns, Flow, Installing, ByFile, ByHelper
      <4> QED BY <1>0, <4>1, <4>2
    <3> QED BY <3>1, <3>2
  <2>4. C(r)'
    <3>1. CASE helper'[r].pc \in {"start", "finish"}
      <4>1. helper'[r] = helper[r] /\ conts' = conts
        BY <1>3, <3>1 DEF Move
      <4>2. req[r].pc \in {"told", "begin", "done"}
        BY <3>1, <4>1 DEF Ways
      <4>3. req'[r].ver = req[r].ver
        BY <1>3, <4>2 DEF Move, Learns
      <4> QED BY <1>0, <4>1, <4>3
    <3> QED BY <3>1
  <2> QED BY <1>0, <2>1, <2>2, <2>3, <2>4
<1>4. ASSUME NEW r \in Reqs, Execs(r) PROVE Versions'
  <2>1. mode = "binary" /\ UNCHANGED <<mode, helper>> /\ \A q \in Reqs : helper[q].pc = "off"
    BY <1>4, <1>b DEF Execs, Ways
  <2>2. CASE UNCHANGED <<conts, req>> /\ pending' = pending \ {r}
    BY <1>0, <2>1, <2>2 DEF Installing
  <2>3. CASE /\ Forget(Home) /\ exe # 0
             /\ conts'[Home].on = "boot" /\ conts'[Home].ver = exe
             /\ \A c \in Conts \ {Home} : Same(c)
    <3>1. A'
      BY <1>0, <2>1, <2>3 DEF Same
    <3>2. ASSUME NEW q \in Reqs PROVE B(q)' /\ C(q)'
      <4>1. /\ Installing(q)' => Installing(q)
            /\ req'[q].ver = req[q].ver
            /\ req'[q].pc = req[q].pc \/ req'[q].pc = "done"
        BY <1>a, <2>1, <2>3, ForgetInstalls, ForgetEffect
      <4> QED BY <1>0, <2>1, <4>1
    <3> QED BY <1>0, <3>1, <3>2
  <2> QED BY <1>4, <2>2, <2>3 DEF Execs
<1>5. ASSUME NEW r \in Reqs, HelperMove(r) PROVE Versions'
  <2>1. A'
    <3>1. mode' = mode
      BY <1>5 DEF HelperMove
    <3>2. \A c \in Conts : conts'[c].on \in Live \cup {"off"} => conts'[c].ver # 0
      BY <1>5, HelperVersions
    <3> QED BY <3>1, <3>2
  <2>2. \A q \in Reqs : /\ req'[q].ver = req[q].ver
                        /\ req'[q].pc = req[q].pc \/ req'[q].pc = "done"
                        /\ q \in pending' => q \in pending
    <3>1. CASE Forget(req[r].at)
      <4>1. pending' \subseteq pending
        BY <1>a, <3>1, ForgetEffect
      <4> QED BY <1>a, <3>1, <4>1, ForgetEffect
    <3>2. CASE UNCHANGED <<req, pending>>
      BY <3>2
    <3> QED BY <1>5, <3>1, <3>2 DEF HelperMove
  <2>3. \A q \in Reqs : helper'[q].pc # "off" => helper[q].pc # "off"
    BY <1>5 DEF HelperMove, HelperFlow
  <2>4. ASSUME NEW q \in Reqs PROVE B(q)'
    <3>1. Installing(q)' => Installing(q)
      BY <2>2, <2>3 DEF Installing, ByFile, ByHelper
    <3> QED BY <1>0, <2>2, <3>1
  <2>5. ASSUME NEW q \in Reqs PROVE C(q)'
    <3>1. CASE q = r
      <4>1. helper'[r].pc = "finish" => conts[r].on = "off" /\ conts[r].ver = req[r].ver
        <5>1. helper'[r].pc = "finish" => helper[r].pc = "start"
          BY <1>5 DEF HelperMove, HelperFlow
        <5>2. helper[r].pc = "start" => conts[r].on = "off"
          BY DEF Births, Unborn
        <5> QED BY <1>0, <5>1, <5>2
      <4> QED BY <1>5, <2>2, <3>1, <4>1 DEF HelperMove
    <3>2. CASE q # r
      <4>1. helper'[q] = helper[q] /\ q \in Conts /\ q \in Conts \ {r}
        BY <1>5, <1>a, <3>2 DEF HelperMove
      <4>2. Same(q) \/ conts'[q].on = "absent"
                    \/ (conts'[q].ver = conts[q].ver /\ conts[q].on \in Live \cup {"off"})
        BY <1>5, <4>1 DEF HelperMove, Undoing
      <4> QED BY <1>0, <2>2, <4>1, <4>2 DEF Same, Live
    <3> QED BY <3>1, <3>2
  <2> QED BY <1>0, <2>1, <2>4, <2>5
<1>6. ASSUME NEW c \in Conts, Serves(c) PROVE Versions'
  <2>1. UNCHANGED <<mode, helper>>
    BY <1>6 DEF Serves
  <2>2. A'
    BY <1>0, <1>6, <1>b DEF Serves, Same, Live
  <2>3. \A q \in Reqs : /\ req'[q].ver = req[q].ver
                        /\ req'[q].pc = req[q].pc \/ req'[q].pc = "done"
                        /\ Installing(q)' => Installing(q)
    <3>1. CASE UNCHANGED <<req, pending>>
      BY <2>1, <3>1 DEF Installing
    <3>2. CASE Forget(c)
      BY <2>1, <3>2, ForgetEffect, ForgetInstalls
    <3> QED BY <1>6, <3>1, <3>2 DEF Serves
  <2>4. ASSUME NEW q \in Reqs PROVE C(q)'
    <3>1. CASE mode = "binary"
      BY <2>1, <3>1 DEF Ways
    <3>2. CASE mode = "docker"
      <4>1. conts'[q].ver = conts[q].ver /\ (conts'[q].on # "absent" => conts[q].on # "absent")
        BY <1>6, <1>a, <3>2 DEF Serves, Same, Live
      <4> QED BY <1>0, <2>1, <2>3, <4>1
    <3> QED BY <1>b, <3>1, <3>2
  <2> QED BY <1>0, <2>2, <2>3, <2>4
<1> QED BY <1>1, <1>2, <1>3, <1>4, <1>5, <1>6, Kinds

LEMMA BirthsStep ==
    ASSUME TypeOK, Ways, Births, [Next]_vars
    PROVE  Births'
<1> DEFINE Before(r) ==
             CASE helper[r].pc = "start" -> {"off"}
               [] helper[r].pc = "undo"  -> {"off", "absent"}
               [] OTHER                  -> {"absent"}
           A(r) == req[r].at # r
           B(r) == Unborn(r) => \A q \in Reqs : req[q].at # r
           C(r) == Unborn(r) => conts[r].on \in Before(r)
<1>0. /\ Births <=> \A r \in Reqs : A(r) /\ B(r) /\ C(r)
      /\ Births' <=> \A r \in Reqs : A(r)' /\ B(r)' /\ C(r)'
  BY DEF Births
<1>a. Reqs \subseteq Conts /\ Home \in Conts /\ \A r \in Reqs : req[r].at \in Conts /\ r # Home
  BY UpdaterAssumption DEF Conts, TypeOK, Asking
<1>b. \A r \in Reqs : Unborn(r) => conts[r].on \in {"off", "absent"}
  BY DEF Births
<1>c. {"off", "absent"} \cap (Live \cup {"up", "boot", "wired"}) = {}
  BY DEF Live
<1>1. CASE Rests
  BY <1>1 DEF Rests, Births, Unborn
<1>2. ASSUME NEW r \in Reqs, Asks(r) PROVE Births'
  <2>1. \A q \in Reqs : Unborn(q)' => Unborn(q)
    <3>1. Unborn(r)
      BY <1>2 DEF Asks, Unborn
    <3>2. \A q \in Reqs \ {r} : req'[q] = req[q] /\ helper' = helper
      BY <1>2 DEF Asks
    <3> QED BY <3>1, <3>2 DEF Unborn
  <2>2. \A q \in Reqs : Unborn(q) => req'[r].at # q
    BY <1>2, <1>b, <1>c DEF Asks
  <2>3. Unborn(r)
    BY <1>2 DEF Asks, Unborn
  <2>4. ASSUME NEW q \in Reqs PROVE A(q)' /\ B(q)' /\ C(q)'
    BY <1>0, <1>2, <2>1, <2>2, <2>3 DEF Asks
  <2> QED BY <1>0, <2>4
<1>3. ASSUME NEW r \in Reqs, Move(r) PROVE Births'
  <2>1. \A q \in Reqs : Unborn(q)' => Unborn(q)
    <3>1. \A q \in Reqs \ {r} : req'[q] = req[q] /\ helper'[q] = helper[q]
      BY <1>3 DEF Move
    <3>2. Unborn(r)' => Unborn(r)
      BY <1>3 DEF Move, Flow, Unborn, Looking, ByFile
    <3> QED BY <3>1, <3>2 DEF Unborn
  <2>2. \A q \in Reqs : req'[q].at = req[q].at
    BY <1>3 DEF Move
  <2>3. ASSUME NEW q \in Reqs, Unborn(q)' PROVE conts'[q].on \in Before(q)'
    <3>1. CASE helper'[q] = helper[q]
      BY <1>0, <1>3, <2>1, <2>3, <3>1 DEF Move
    <3>2. CASE helper'[q] # helper[q]
      <4>1. q = r /\ helper'[q].pc = "begin" /\ req[q].pc = "launch"
        BY <1>3, <3>2 DEF Move
      <4>2. helper[q].pc = "off"
        BY <4>1 DEF Ways
      <4>3. conts[q].on = "absent"
        BY <1>0, <2>1, <2>3, <4>2
      <4> QED BY <1>3, <4>1, <4>3 DEF Move
    <3> QED BY <3>1, <3>2
  <2> QED BY <1>0, <2>1, <2>2, <2>3
<1>4. ASSUME NEW r \in Reqs, Execs(r) PROVE Births'
  <2>1. CASE UNCHANGED <<conts, req>>
    BY <1>4, <2>1 DEF Execs, Births, Unborn
  <2>2. CASE Forget(Home) /\ \A c \in Conts \ {Home} : Same(c)
    <3>1. helper' = helper
      BY <1>4 DEF Execs
    <3>2. \A q \in Reqs : /\ Unborn(q)' => Unborn(q)
                          /\ req'[q].at = req[q].at
      BY <1>a, <2>2, <3>1, ForgetEffect, ForgetInstalls
    <3>3. \A q \in Reqs : conts'[q].on = conts[q].on
      BY <1>a, <2>2 DEF Same
    <3> QED BY <1>0, <3>1, <3>2, <3>3
  <2> QED BY <1>4, <2>1, <2>2 DEF Execs
<1>5. ASSUME NEW r \in Reqs, HelperMove(r) PROVE Births'
  <2>1. \A q \in Reqs : /\ req'[q].at = req[q].at
                        /\ req'[q].pc = req[q].pc \/ req'[q].pc = "done"
    <3>1. CASE Forget(req[r].at)
      BY <1>a, <3>1, ForgetEffect
    <3>2. CASE UNCHANGED req
      BY <3>2
    <3> QED BY <1>5, <3>1, <3>2 DEF HelperMove
  <2>2. \A q \in Reqs : Unborn(q)' => Unborn(q)
    <3>1. \A q \in Reqs \ {r} : helper'[q] = helper[q]
      BY <1>5 DEF HelperMove
    <3>2. Unborn(r)' => Unborn(r)
      <4>1. /\ helper[r].pc \in {"begin", "pull", "rename", "stop", "new", "start", "undo"}
            \/ helper'[r].pc = "off"
        BY <1>5 DEF HelperMove, HelperFlow
      <4>2. req'[r].pc \notin Looking \cup ByFile \cup {"unused", "create", "launch"}
        <5>1. req[r].pc \in {"told", "begin", "done"}
          BY <1>5 DEF Ways, HelperMove, HelperFlow
        <5> QED BY <2>1, <5>1 DEF Looking, ByFile
      <4> QED BY <4>1, <4>2 DEF Unborn
    <3>3. ASSUME NEW q \in Reqs \ {r}, Unborn(q)' PROVE Unborn(q)
      <4>1. req'[q].pc \in Looking \cup ByFile \cup {"unused", "create", "launch"}
              => req'[q].pc = req[q].pc
        BY <2>1 DEF Looking, ByFile
      <4> QED BY <3>1, <3>3, <4>1 DEF Unborn
    <3> QED BY <3>2, <3>3
  <2>3. ASSUME NEW q \in Reqs, Unborn(q)', q # r PROVE conts'[q].on \in Before(q)'
    <3>1. req[r].at # q /\ q \in Conts
      BY <1>0, <1>a, <2>2, <2>3
    <3>2. Same(q) /\ helper'[q] = helper[q]
      BY <1>5, <2>3, <3>1 DEF HelperMove, Undoing
    <3> QED BY <1>0, <2>2, <2>3, <3>2 DEF Same
  <2>4. ASSUME Unborn(r)' PROVE conts'[r].on \in Before(r)'
    <3>1. helper'[r].pc # "off"
      <4>1. req[r].pc \in {"told", "begin", "done"}
        BY <1>5 DEF Ways, HelperMove, HelperFlow
      <4> QED BY <2>1, <2>4, <4>1 DEF Unborn, Looking, ByFile
    <3>2. /\ conts[r].on \in Before(r) /\ req[r].at # r /\ r \in Conts
          /\ helper[r].pc # "start" => helper'[r].pc # "finish"
          /\ helper'[r].pc # "finish"
      BY <1>0, <1>5, <1>a, <2>2, <2>4 DEF HelperMove, HelperFlow, Unborn, Ways, Looking, ByFile
    <3>3. CASE helper'[r].pc = "start"
      BY <1>5, <3>3 DEF HelperMove
    <3>4. CASE helper'[r].pc # "start"
      <4>1. helper[r].pc \notin {"undo", "finish"}
        BY <1>5, <3>1 DEF HelperMove, HelperFlow
      <4>2. Same(r)
        BY <1>5, <3>2, <3>4, <4>1 DEF HelperMove
      <4>3. /\ helper[r].pc = "start" => helper'[r].pc = "undo"
            /\ helper'[r].pc \in {"pull", "rename", "stop", "new", "undo"}
        BY <1>5, <3>1, <3>2, <3>4 DEF HelperMove, HelperFlow
      <4> QED BY <3>2, <3>4, <4>1, <4>2, <4>3 DEF Same
    <3> QED BY <3>3, <3>4
  <2> QED BY <1>0, <2>1, <2>2, <2>3, <2>4
<1>6. ASSUME NEW c \in Conts, Serves(c) PROVE Births'
  <2>1. helper' = helper /\ conts[c].on \in Live \cup {"boot", "wired"}
    BY <1>6 DEF Serves
  <2>2. \A q \in Reqs : Unborn(q)' => Unborn(q) /\ c # q
    <3>1. CASE UNCHANGED req
      BY <1>b, <1>c, <2>1, <3>1 DEF Unborn
    <3>2. CASE Forget(c)
      BY <1>b, <1>c, <2>1, <3>2, ForgetInstalls
    <3> QED BY <1>6, <3>1, <3>2 DEF Serves
  <2>3. \A q \in Reqs : req'[q].at = req[q].at
    BY <1>6, ForgetEffect DEF Serves
  <2>4. \A q \in Reqs : Unborn(q)' => conts'[q].on = conts[q].on
    BY <1>6, <1>a, <2>2 DEF Serves, Same
  <2> QED BY <1>0, <2>1, <2>2, <2>3, <2>4
<1> QED BY <1>1, <1>2, <1>3, <1>4, <1>5, <1>6, Kinds

\* Only the last look takes a request to where it installs, and it sees whoever
\* is there.
LEMMA AloneStep ==
    ASSUME TypeOK, Births, Alone, [Next]_vars
    PROVE  Alone'
<1>1. stray \subseteq stray'
  BY StrayGrows
<1>2. CASE \A q \in Reqs : Installing(q)' => Installing(q)
  BY <1>1, <1>2 DEF Alone
<1>3. CASE Rests
  BY <1>2, <1>3 DEF Rests, Installing
<1>4. ASSUME NEW r \in Reqs, Asks(r) PROVE Alone'
  <2>1. \A q \in Reqs : Installing(q)' => Installing(q)
    BY <1>4 DEF Asks, Installing, ByFile, ByHelper
  <2> QED BY <1>2, <2>1
<1>5. ASSUME NEW r \in Reqs, Move(r) PROVE Alone'
  <2>1. \A q \in Reqs \ {r} : Installing(q)' <=> Installing(q)
    BY <1>5 DEF Move, Installing
  <2>2. CASE req'[r].pc \in {"create", "stat", "pull"}
    <3>1. \A q \in Reqs \ {r} : Installing(q) => "overlap" \in stray'
      BY <1>5, <2>2 DEF Move, Meets
    <3> QED BY <1>1, <2>1, <3>1 DEF Alone
  <2>3. CASE req'[r].pc \notin {"create", "stat", "pull"}
    <3>1. Installing(r)' => Installing(r)
      BY <1>5, <2>3 DEF Move, Flow, Installing, ByFile, ByHelper
    <3> QED BY <1>2, <2>1, <3>1
  <2> QED BY <2>2, <2>3
<1>6. ASSUME NEW r \in Reqs, Execs(r) PROVE Alone'
  <2>1. Home \in Conts
    BY DEF Conts
  <2>2. CASE UNCHANGED req /\ pending' = pending \ {r}
    <3>1. \A q \in Reqs : Installing(q)' => Installing(q)
      BY <1>6, <2>2 DEF Execs, Installing
    <3> QED BY <1>2, <3>1
  <2>3. CASE Forget(Home)
    <3>1. \A q \in Reqs : Installing(q)' => Installing(q)
      BY <1>6, <2>1, <2>3, ForgetInstalls DEF Execs
    <3> QED BY <1>2, <3>1
  <2> QED BY <1>6, <2>2, <2>3 DEF Execs
<1>7. ASSUME NEW r \in Reqs, HelperMove(r) PROVE Alone'
  <2>1. \A q \in Reqs : helper'[q].pc # "off" => helper[q].pc # "off"
    BY <1>7 DEF HelperMove, HelperFlow
  <2>2. \A q \in Reqs : /\ req'[q].pc = req[q].pc \/ req'[q].pc = "done"
                        /\ q \in pending' => q \in pending
    <3>1. req[r].at \in Conts
      BY DEF TypeOK, Asking
    <3>2. CASE Forget(req[r].at)
      <4>1. pending' \subseteq pending
        BY <3>1, <3>2, ForgetEffect
      <4> QED BY <3>1, <3>2, <4>1, ForgetEffect
    <3> QED BY <1>7, <3>2 DEF HelperMove
  <2>3. \A q \in Reqs : Installing(q)' => Installing(q)
    BY <2>1, <2>2 DEF Installing, ByFile, ByHelper
  <2> QED BY <1>2, <2>3
<1>8. ASSUME NEW c \in Conts, Serves(c) PROVE Alone'
  <2>1. CASE UNCHANGED <<req, pending>>
    <3>1. \A q \in Reqs : Installing(q)' => Installing(q)
      BY <1>8, <2>1 DEF Serves, Installing
    <3> QED BY <1>2, <3>1
  <2>2. CASE Forget(c)
    <3>1. \A q \in Reqs : Installing(q)' => Installing(q)
      BY <1>8, <2>2, ForgetInstalls DEF Serves
    <3> QED BY <1>2, <3>1
  <2> QED BY <1>8, <2>1, <2>2 DEF Serves
<1> QED BY <1>3, <1>4, <1>5, <1>6, <1>7, <1>8, Kinds

-----------------------------------------------------------------------------
(* The file, and the copies that are kept of it.                           *)

\* A request replaces the file, or breaks it off, and is about to restart.
LEMMA FileStep ==
    ASSUME TypeOK, NEW r \in Reqs, Steps(r), ~Exec(r)
    PROVE  exe' \in {exe, 0} \/ req'[r].pc = "restart"
<1>1. CASE Install(r) \/ Restore(r)
  <2>1. "restart" \in Point
    BY DEF Point, ByFile
  <2> QED BY <1>1, <2>1, GoEffect DEF Install, Restore
<1>2. CASE ~Install(r) /\ ~Restore(r)
  BY <1>2 DEF Steps, MarkBackingUp, CreateBackup, Gate, Resolve, Guard, CheckBegins,
       CheckEnds, Guard2, GuardBack, Pull, Fetch, Save, Note, Restart,
       BackStarts, Keep, Create, Launch, Told, Begin, files
<1> QED BY <1>1, <1>2

LEMMA FileRunsStep ==
    ASSUME TypeOK, Ways, Births, FileRuns, [Next]_vars
    PROVE  FileRuns'
<1> DEFINE A == conts[Home].on \in {"boot", "wired"} =>
                  /\ \A r \in Reqs : req[r].pc \in {"unused", "done"}
                  /\ pending = {} /\ exe = conts[Home].ver
           B == \/ exe \in {conts[Home].ver, 0}
                \/ pending # {} \/ \E r \in Reqs : req[r].pc = "restart"
                \/ Excused({"exec", "overlap"})
<1>0. /\ FileRuns <=> (mode = "binary" => A /\ B)
      /\ FileRuns' <=> (mode' = "binary" => A' /\ B')
  BY DEF FileRuns
<1>a. /\ Excused({"exec", "overlap"}) => Excused({"exec", "overlap"})'
      /\ "exec" \in stray' => Excused({"exec", "overlap"})'
  BY StrayGrows DEF Excused
<1>b. Home \in Conts
  BY DEF Conts
<1>1. CASE Rests
  BY <1>1 DEF Rests, FileRuns, Excused
<1>2. ASSUME NEW r \in Reqs, Request(r), Asks(r) PROVE FileRuns'
  <2>1. mode = "binary" => conts[Home].on = "up"
    BY <1>2 DEF Asks, Ways, Conts
  <2>2. UNCHANGED <<mode, conts, pending, exe>>
    BY <1>2 DEF Asks, Request, files
  <2>3. \A q \in Reqs : req[q].pc = "restart" => req'[q].pc = "restart"
    BY <1>2 DEF Asks
  <2> QED BY <1>0, <1>a, <2>1, <2>2, <2>3
<1>3. ASSUME NEW r \in Reqs, Steps(r), Move(r), ~Exec(r) PROVE FileRuns'
  <2>1. UNCHANGED <<mode, conts>> /\ (mode = "binary" => conts[Home].on = "up")
    BY <1>3 DEF Move, Ways
  <2>2. exe' \in {exe, 0} \/ req'[r].pc = "restart"
    BY <1>3, FileStep
  <2>3. \A q \in Reqs : req[q].pc = "restart" => req'[q].pc = "restart" \/ q \in pending'
    BY <1>3 DEF Move
  <2>4. pending \subseteq pending'
    BY <1>3 DEF Move
  <2> QED BY <1>0, <1>a, <2>1, <2>2, <2>3, <2>4
<1>4. ASSUME NEW r \in Reqs, Execs(r) PROVE FileRuns'
  <2>1. CASE "exec" \in stray' /\ UNCHANGED <<conts, req>> /\ pending' = pending \ {r}
    <3>1. UNCHANGED <<mode, exe>> /\ r \in pending
      BY <1>4 DEF Execs
    <3> QED BY <1>0, <1>a, <2>1, <3>1
  <2>2. CASE Forget(Home) /\ conts'[Home].on = "boot" /\ conts'[Home].ver = exe
    <3>1. UNCHANGED <<mode, exe>>
      BY <1>4 DEF Execs
    <3>2. mode = "binary" => /\ \A q \in Reqs : req'[q].pc \in {"unused", "done"}
                             /\ pending' = {}
      <4>1. mode = "binary" => \A q \in Reqs : req[q].at = Home
        BY DEF Ways
      <4>2. pending' \subseteq Reqs
        BY <1>b, <2>2, ForgetEffect DEF TypeOK
      <4> QED BY <1>b, <2>2, <4>1, <4>2, ForgetEffect
    <3> QED BY <1>0, <2>2, <3>1, <3>2
  <2> QED BY <1>4, <2>1, <2>2 DEF Execs
<1>5. ASSUME NEW r \in Reqs, HelperMove(r) PROVE FileRuns'
  <2>1. mode' # "binary"
    BY <1>5 DEF HelperMove, HelperFlow, Ways
  <2> QED BY <2>1, <1>0
<1>6. ASSUME NEW c \in Conts, Serves(c) PROVE FileRuns'
  <2>1. UNCHANGED <<mode, exe>>
    BY <1>6 DEF Serves
  <2> SUFFICES ASSUME mode = "binary" PROVE A' /\ B'
    BY <1>0, <2>1
  <2>2. c = Home
    BY <1>6 DEF Serves, Ways, Conts, Live
  <2>3. CASE /\ conts[c].on \in {"boot", "wired"} /\ conts'[c].ver = conts[c].ver
             /\ UNCHANGED <<req, pending>>
    BY <1>0, <2>1, <2>2, <2>3
  <2>4. CASE /\ Forget(c) /\ conts'[c].ver = exe
             /\ conts'[c].on = IF conts'[c].ver = 0 THEN "off" ELSE "boot"
    <3>1. /\ \A q \in Reqs : req'[q].pc \in {"unused", "done"}
          /\ pending' = {}
      <4>1. \A q \in Reqs : req[q].at = Home
        BY DEF Ways
      <4>2. pending' \subseteq Reqs
        BY <2>4, ForgetEffect DEF TypeOK
      <4> QED BY <2>2, <2>4, <4>1, <4>2, ForgetEffect
    <3> QED BY <2>1, <2>2, <2>4, <3>1
  <2> QED BY <1>6, <2>3, <2>4 DEF Serves
<1>7. ASSUME NEW r \in Reqs, Steps(r), Move(r), Exec(r) PROVE FileRuns'
  BY <1>4, <1>7, ExecEffect
<1> QED BY <1>1, <1>2, <1>3, <1>4, <1>5, <1>6, <1>7, Kinds

\* A copy that is made holds what runs, or is broken off.
LEMMA CopyHolds ==
    ASSUME TypeOK, Ways, Alone, FileRuns, NEW r \in Reqs, NEW x, Kept(r, x)
    PROVE  x \in {Running(r), 0} \/ Excused({"exec", "overlap"})
<1>1. mode = "binary" /\ req[r].pc \in {"save", "keep"}
  BY UpdaterAssumption DEF Kept, Ways, TypeOK, ByFile
<1>2. req[r].at = Home /\ Installing(r)
  BY <1>1 DEF Ways, Installing, ByFile
<1>3. \A q \in Reqs : q \in pending \/ req[q].pc = "restart" => q # r /\ Installing(q)
  BY <1>1 DEF Ways, Installing, ByFile
<1>4. (pending # {} \/ \E q \in Reqs : req[q].pc = "restart") => "overlap" \in stray
  BY <1>2, <1>3 DEF Alone, TypeOK
<1> QED BY <1>1, <1>2, <1>4 DEF FileRuns, Kept, Excused, Running

LEMMA BackupsHeldStep ==
    ASSUME TypeOK, Ways, Versions, Births, Alone, FileRuns, OneFileEach, BackupsTrue,
           [Next]_vars
    PROVE  OneFileEach' /\ BackupsTrue'
<1>1. Excused({"exec", "overlap"}) => Excused({"exec", "overlap"})'
  BY StrayGrows DEF Excused
<1>2. CASE backups' = backups
  BY <1>1, <1>2 DEF OneFileEach, BackupsTrue
<1>3. CASE \E r \in Reqs : backups' = Without(Running(r))
  BY <1>1, <1>3, WithoutEffect DEF OneFileEach, BackupsTrue
<1>4. ASSUME NEW r \in Reqs, NEW x \in 0 .. MaxVersion, Kept(r, x)
      PROVE  OneFileEach' /\ BackupsTrue'
  <2> DEFINE bs == Backup(Running(r), x)
  <2>1. Running(r) \in Version
    BY <1>4 DEF Kept
  <2>2. /\ bs \in Seq(File)
        /\ \A i \in DOMAIN bs : \/ bs[i] = [of |-> Running(r), holds |-> x]
                                \/ \E j \in DOMAIN backups : bs[i] = backups[j]
        /\ \A i, j \in DOMAIN bs : bs[i].of = bs[j].of => i = j
    BY <2>1, BackupEffect
  <2>3. x \in {Running(r), 0} \/ Excused({"exec", "overlap"})
    BY <1>4, CopyHolds
  <2>4. \A i \in DOMAIN bs : bs[i].holds \in {bs[i].of, 0} \/ Excused({"exec", "overlap"})
    BY <2>2, <2>3 DEF BackupsTrue
  <2>5. backups' = bs \/ backups' = pruneBackups(bs)
    BY <1>4 DEF Kept
  <2> HIDE DEF bs
  <2>6. /\ DOMAIN backups' \subseteq DOMAIN bs
        /\ \A i \in DOMAIN backups' : backups'[i] = bs[i]
    BY <2>2, <2>5, PruneEffect
  <2> QED BY <1>1, <2>2, <2>4, <2>6 DEF OneFileEach, BackupsTrue
<1> QED BY <1>2, <1>3, <1>4, BackupsStep

-----------------------------------------------------------------------------
(* Who owns a status that shuts others out.                                *)

\* What a step of a request writes: an end, a status of its own, or nothing, and
\* then the point that goes with the status it may have written is not lost.
LEMMA StatusStep ==
    ASSUME TypeOK, Ways, NEW r \in Reqs, Steps(r), ~Exec(r), Move(r),
           st'.status \in Active
    PROVE  \/ /\ st'.status = st.status
              /\ req[r].pc \notin {"lookup", "fetch", "restart"}
              /\ req[r].act = "apply" /\ req[r].pc \in {"backup", "gate", "guard"} =>
                    req'[r].pc \in {"gate", "guard"} \/ "gate" \in stray'
              /\ req[r].pc \in {"save", "note", "install"} =>
                    req'[r].pc \in {"note", "install", "restart"}
              /\ req[r].pc \in {"keep", "restore"} => req'[r].pc \in {"restore", "restart"}
           \/ /\ st'.status = "backing_up" /\ req'[r].pc = "backup"
              /\ req'[r].act = "apply"
           \/ st'.status = "checking" /\ req'[r].pc = "lookup"
           \/ st'.status = "pulling" /\ req'[r].pc = "fetch"
           \/ st'.status = "recreating" /\ req'[r].pc = "save"
           \/ st'.status = "rolling_back" /\ req'[r].pc = "keep"
           \/ st'.status = "restarting" /\ r \in pending'
           \/ st'.status = "restarting" /\ (helper'[r].pc # "off" \/ "late" \in stray')
<1>1. /\ st \in StateFile /\ Failure.status = "failed"
      /\ \A s \in Status : [st EXCEPT !.status = s].status = s
  BY StateEffect DEF TypeOK, StateFile
<1>2. "failed" \notin Active /\ "available" \notin Active /\ "idle" \notin Active
  BY DEF Active
<1>3. {"backing_up", "checking", "pulling", "recreating", "restarting", "rolling_back",
       "failed", "available", "idle"} \subseteq Status
  BY DEF Status, Active
<1>4. \A p \in Point : Go(r, p) => req'[r].pc = p
  BY GoEffect
<1>5. Looking \subseteq Point /\ ByFile \subseteq Point /\ ByHelper \subseteq Point
      /\ "done" \in Point /\ "begin" \in Point
  BY Points
<1>6. st' # Failure /\ st'.status # "failed"
  BY <1>1, <1>2
<1>7. CASE MarkBackingUp(r)
  <2>1. req[r].pc = "mark" /\ st'.status = "backing_up" /\ Go(r, "backup")
    BY <1>1, <1>3, <1>7 DEF MarkBackingUp, At
  <2> QED BY <1>4, <1>5, <2>1 DEF Looking, Ways, Move
<1>8. CASE CreateBackup(r)
  <2>1. req[r].pc = "backup" /\ req[r].act = "apply"
    BY <1>8 DEF CreateBackup, At, Ways
  <2>2. st' = st /\ Go(r, "gate")
    BY <1>6, <1>8, <2>1 DEF CreateBackup, Fail
  <2> QED BY <1>4, <1>5, <2>1, <2>2 DEF Looking
<1>9. CASE Gate(r)
  <2>1. /\ req[r].pc = "gate" /\ st' = st
        /\ \/ Go(r, "done") /\ (req[r].act = "apply" => "gate" \in stray')
           \/ Go(r, "resolve") /\ req[r].act = "version"
           \/ Go(r, "guard")
    BY <1>9 DEF Gate, At
  <2> QED BY <1>4, <1>5, <2>1 DEF Looking
<1>10. CASE Guard(r)
  <2>1. req[r].pc = "guard" /\ (req[r].act # "apply" => st' = st)
    BY <1>10 DEF Guard, At, Fail
  <2>2. req[r].act # "apply"
    <3>1. CASE isUpdateTaskActive /\ req[r].act = "apply"
      BY <1>6, <1>10, <3>1 DEF Guard, Fail
    <3>2. CASE ~isUpdateTaskActive
      <4>1. st' = st
        BY <1>10, <3>2 DEF Guard
      <4> QED BY <3>2, <4>1 DEF isUpdateTaskActive
    <3> QED BY <3>1, <3>2
  <2> QED BY <2>1, <2>2
<1>11. CASE CheckBegins(r)
  <2>1. st'.status = "checking" /\ Go(r, "lookup")
    BY <1>1, <1>3, <1>11 DEF CheckBegins
  <2> QED BY <1>4, <1>5, <2>1 DEF Looking
<1>12. CASE CheckEnds(r)
  <2> DEFINE s == IF hasUpdate(Running(r)) THEN "available" ELSE "idle"
             found == [st EXCEPT !.target = latest, !.status = s]
  <2>1. st' \in {Failure, found, [found EXCEPT !.status = "failed"]}
    BY <1>12 DEF CheckEnds
  <2>2. found.status \in {"available", "idle"} /\ [found EXCEPT !.status = "failed"].status = "failed"
    BY <1>1, <1>3 DEF StateFile
  <2> QED BY <1>2, <1>6, <2>1, <2>2
<1>13. CASE Resolve(r) \/ Guard2(r) \/ GuardBack(r) \/ Create(r) \/ Launch(r) \/ Begin(r)
  <2>1. st'.status = st.status
    <3>1. st' \in {st, Failure, [st EXCEPT !.previous = Running(r), !.back = 0]}
      BY <1>13 DEF Resolve, Guard2, GuardBack, Create, Launch, Begin, Fail
    <3>2. [st EXCEPT !.previous = Running(r), !.back = 0].status = st.status
      BY <1>1 DEF StateFile
    <3> QED BY <1>6, <3>1, <3>2
  <2>2. \/ req[r].pc \in {"resolve", "guard2", "create", "launch", "begin"}
        \/ req[r].pc = "guard" /\ req[r].act = "rollback"
    BY <1>13 DEF Resolve, Guard2, GuardBack, Create, Launch, Begin, At
  <2> QED BY <2>1, <2>2
<1>14. CASE Pull(r)
  <2>1. st'.status = "pulling" /\ Go(r, "fetch")
    BY <1>1, <1>14 DEF Pull, StateFile
  <2> QED BY <1>4, <1>5, <2>1 DEF ByFile
<1>15. CASE Fetch(r)
  <2>1. st'.status = "recreating" /\ Go(r, "save")
    BY <1>1, <1>3, <1>6, <1>15 DEF Fetch
  <2> QED BY <1>4, <1>5, <2>1 DEF ByFile
<1>16. CASE Save(r) \/ Note(r) \/ Install(r) \/ Keep(r) \/ Restore(r)
  <2>1. st'.status = st.status
    <3>1. st' \in {st, [st EXCEPT !.previous = Running(r), !.back = 0]}
      BY <1>6, <1>16 DEF Save, Note, Install, Keep, Restore
    <3> QED BY <1>1, <3>1 DEF StateFile
  <2>2. \/ req[r].pc = "save" /\ Go(r, "note")
        \/ req[r].pc = "note" /\ Go(r, "install")
        \/ req[r].pc \in {"install", "restore"} /\ Go(r, "restart")
        \/ req[r].pc = "keep" /\ Go(r, "restore")
    BY <1>6, <1>16 DEF Save, Note, Install, Keep, Restore, At
  <2> QED BY <1>4, <1>5, <2>1, <2>2 DEF ByFile
<1>17. CASE Restart(r)
  <2>1. st'.status = "restarting" /\ r \in pending'
    BY <1>1, <1>3, <1>17 DEF Restart
  <2> QED BY <2>1
<1>18. CASE BackStarts(r)
  <2>1. req[r].pc = "stat"
    BY <1>18 DEF BackStarts, At
  <2>2. \/ st' = st
        \/ st'.status = "rolling_back" /\ Go(r, "keep")
    BY <1>1, <1>18 DEF BackStarts, StateFile
  <2> QED BY <1>4, <1>5, <2>1, <2>2 DEF ByFile
<1>19. CASE Told(r)
  <2>1. st'.status = "restarting"
    BY <1>1, <1>19 DEF Told, StateFile
  <2>2. helper' = helper /\ (helper[r].pc = "off" => "late" \in stray')
    BY <1>19 DEF Told
  <2> QED BY <2>1, <2>2
<1> QED BY <1>7, <1>8, <1>9, <1>10, <1>11, <1>12, <1>13, <1>14, <1>15, <1>16, <1>17,
           <1>18, <1>19 DEF Steps

\* A helper that is at its end has written one, or has left a reason.
LEMMA HelperEnds ==
    ASSUME TypeOK, NEW r \in Reqs, HelperSteps(r) \/ HelperDies(r), helper'[r].pc = "off"
    PROVE  st'.status \notin Active \/ Excused(LeftBehind)'
<1>1. /\ Failure.status = "failed" /\ [st EXCEPT !.status = "completed"].status = "completed"
      /\ "failed" \notin Active /\ "completed" \notin Active
  BY StateEffect DEF TypeOK, StateFile, Active
<1>2. \A g \in HelperPoint \ {"off"} : ~HelperGo(r, g)
  BY HelperEffect
<1>3. {"pull", "rename", "stop", "new", "start", "undo", "finish"} \subseteq HelperPoint \ {"off"}
  BY DEF HelperPoint
<1>4. CASE HelperDies(r)
  BY <1>4 DEF HelperDies, Excused, LeftBehind
<1>5. CASE HelperFinishes(r)
  BY <1>1, <1>5 DEF HelperFinishes, Excused, LeftBehind
<1>6. CASE HelperRenames(r)
  <2>1. HelperFails(r)
    BY <1>6 DEF HelperRenames, TypeOK, Working
  <2> QED BY <1>1, <2>1 DEF HelperFails
<1>7. CASE HelperFails(r)
  BY <1>1, <1>7 DEF HelperFails
<1>8. CASE HelperSteps(r) /\ ~HelperFinishes(r) /\ ~HelperRenames(r)
  <2>1. HelperFails(r)
    BY <1>2, <1>3, <1>8 DEF HelperSteps, HelperBegins, HelperPulls, HelperStops,
         HelperCreates, HelperStarts, HelperUndoes
  <2> QED BY <1>7, <2>1
<1> QED BY <1>4, <1>5, <1>6, <1>8

LEMMA OwnedStep ==
    ASSUME TypeOK, Ways, Births, Owned, [Next]_vars
    PROVE  Owned'
<1> SUFFICES ASSUME st'.status \in Active, ~Excused(LeftBehind)', ~Helped'
             PROVE  Held'
  BY DEF Owned
<1>1. ~Excused(LeftBehind) /\ \A why \in LeftBehind : why \notin stray'
  BY StrayGrows DEF Excused
<1>2. \A r \in Reqs : helper'[r].pc = "off"
  BY DEF Helped
<1>a. Home \in Conts
  BY DEF Conts
<1>3. CASE Rests
  <2>1. Held
    BY <1>1, <1>3 DEF Owned, Rests, Helped
  <2> QED BY <1>3, <2>1 DEF Rests, Held
<1>4. ASSUME NEW r \in Reqs, Asks(r) PROVE Held'
  <2>1. Held
    BY <1>1, <1>4 DEF Owned, Asks, Helped
  <2>2. UNCHANGED <<st, conts, pending>> /\ \A q \in Reqs : req[q].pc # "unused" => req'[q] = req[q]
    BY <1>4 DEF Asks
  <2> QED BY <2>1, <2>2 DEF Held
<1>5. ASSUME NEW r \in Reqs, Execs(r) PROVE Held'
  <2>1. Forget(Home) /\ st' = st /\ conts'[Home].on = "boot"
    BY <1>1, <1>5, StateEffect DEF Execs, LeftBehind, Active
  <2>2. Held
    BY <1>1, <1>5, <2>1 DEF Owned, Execs, Helped
  <2>3. \A q \in Reqs : req[q].pc \in {"unused", "begin", "done"}
    BY <1>1, <1>5, <2>1, StateEffect DEF Execs, LeftBehind, Active
  <2>4. st.status = "restarting"
    BY <2>2, <2>3 DEF Held
  <2> QED BY <1>a, <2>1, <2>4 DEF Held
<1>6. ASSUME NEW r \in Reqs, HelperSteps(r) \/ HelperDies(r) PROVE Held'
  BY <1>2, <1>6, HelperEnds
<1>7. ASSUME NEW c \in Conts, Boot(c) \/ Reconcile(c) \/ Crash(c), Serves(c) PROVE Held'
  <2>1. ~Crash(c)
    BY <1>1 DEF Crash, LeftBehind
  <2>2. Held
    <3>1. st'.status = st.status /\ helper' = helper
      <4>1. Reconcile(c) => st' = st
        BY DEF Reconcile
      <4>2. Boot(c) => st'.status = st.status
        <5>1. ASSUME Boot(c) PROVE st'.status = st.status
          <6>1. st' = Finalize(conts[c].ver)
            BY <5>1 DEF Boot
          <6>2. st.status = "restarting" => st'.status \in {"completed", "failed"}
            BY <6>1, StateEffect DEF Finalize, TypeOK, StateFile
          <6>3. "completed" \notin Active /\ "failed" \notin Active
            BY DEF Active
          <6> QED BY <6>1, <6>2, <6>3 DEF Finalize
        <5> QED BY <5>1
      <4> QED BY <1>7, <2>1, <4>1, <4>2 DEF Serves
    <3> QED BY <1>1, <3>1 DEF Owned, Helped
  <2>3. CASE Reconcile(c)
    <3>1. UNCHANGED <<st, req, pending>> /\ conts[c].on = "wired"
          /\ \A d \in Conts \ {c} : conts'[d].on = conts[d].on
      BY <1>7, <2>3 DEF Reconcile, TypeOK, Container, Serves, Same
    <3> QED BY <2>2, <3>1 DEF Held
  <2>4. CASE Boot(c)
    <3>1. st' = Finalize(conts[c].ver) /\ UNCHANGED <<req, pending>>
      BY <2>4 DEF Boot
    <3>2. st.status = "restarting" => st'.status \in {"completed", "failed"}
      BY <3>1, StateEffect DEF Finalize, TypeOK, StateFile
    <3>3. "completed" \notin Active /\ "failed" \notin Active
      BY DEF Active
    <3>4. st.status # "restarting" /\ st' = st
      BY <3>1, <3>2, <3>3 DEF Finalize
    <3> QED BY <2>2, <3>1, <3>4 DEF Held
  <2> QED BY <1>7, <2>1, <2>3, <2>4
<1>8. ASSUME NEW r \in Reqs, Steps(r), Move(r), ~Exec(r) PROVE Held'
  <2>1. CASE /\ st'.status = st.status
             /\ req[r].pc \notin {"lookup", "fetch", "restart"}
             /\ req[r].act = "apply" /\ req[r].pc \in {"backup", "gate", "guard"} =>
                   req'[r].pc \in {"gate", "guard"} \/ "gate" \in stray'
             /\ req[r].pc \in {"save", "note", "install"} =>
                   req'[r].pc \in {"note", "install", "restart"}
             /\ req[r].pc \in {"keep", "restore"} => req'[r].pc \in {"restore", "restart"}
    <3>1. Held
      <4>1. \A q \in Reqs : helper[q].pc = "off"
        BY <1>2, <1>8 DEF Move
      <4> QED BY <1>1, <2>1, <4>1 DEF Owned, Helped
    <3>2. UNCHANGED conts /\ pending \subseteq pending' /\ req'[r].act = req[r].act
          /\ \A q \in Reqs \ {r} : req'[q] = req[q]
      BY <1>8 DEF Move
    <3>3. "gate" \notin stray'
      BY <1>1 DEF LeftBehind
    <3>4. CASE \E q \in Reqs : /\ st.status = "backing_up" /\ req[q].act = "apply"
                               /\ req[q].pc \in {"backup", "gate", "guard"}
      <4>1. PICK q \in Reqs : /\ st.status = "backing_up" /\ req[q].act = "apply"
                              /\ req[q].pc \in {"backup", "gate", "guard"}
        BY <3>4
      <4>2. req'[q].act = "apply" /\ req'[q].pc \in {"backup", "gate", "guard"}
        BY <2>1, <3>2, <3>3, <4>1
      <4> QED BY <2>1, <4>1, <4>2 DEF Held
    <3>5. CASE st.status = "checking" /\ \E q \in Reqs : req[q].pc = "lookup"
      BY <2>1, <3>2, <3>5 DEF Held
    <3>6. CASE st.status = "pulling" /\ \E q \in Reqs : req[q].pc = "fetch"
      BY <2>1, <3>2, <3>6 DEF Held
    <3>7. CASE /\ st.status = "recreating"
               /\ \E q \in Reqs : req[q].pc \in {"save", "note", "install", "restart"}
      BY <2>1, <3>2, <3>7 DEF Held
    <3>8. CASE /\ st.status = "rolling_back"
               /\ \E q \in Reqs : req[q].pc \in {"keep", "restore", "restart"}
      BY <2>1, <3>2, <3>8 DEF Held
    <3>9. CASE /\ st.status = "restarting"
               /\ pending # {} \/ \E c \in Conts : conts[c].on = "boot"
      BY <2>1, <3>2, <3>9 DEF Held
    <3> QED BY <3>1, <3>4, <3>5, <3>6, <3>7, <3>8, <3>9 DEF Held
  <2>2. ~(st'.status = "restarting" /\ (helper'[r].pc # "off" \/ "late" \in stray'))
    BY <1>1, <1>2 DEF LeftBehind
  <2> QED BY <1>8, <2>1, <2>2, StatusStep DEF Held
<1> QED BY <1>3, <1>4, <1>5, <1>6, <1>7, <1>8, Kinds, ExecEffect

-----------------------------------------------------------------------------
(* Which server runs.                                                      *)

\* A server is one that lives, and is one again if it is the same.
LEMMA ServersKept ==
    ASSUME \A c \in Conts : conts'[c].on \in Live <=> conts[c].on \in Live
    PROVE  Servers' = Servers
BY DEF Servers

\* An update that alone is past its last look has the only helper.
LEMMA OneHelper ==
    ASSUME Alone, "overlap" \notin stray, NEW r \in Reqs, Installing(r)
    PROVE  \A q \in Reqs \ {r} : helper[q].pc = "off" /\ q \notin pending
BY DEF Alone, Installing

LEMMA HelperServes ==
    ASSUME TypeOK, Ways, Births, Alone, OneAtATime, NEW r \in Reqs, HelperMove(r),
           "overlap" \notin stray, stray \subseteq stray'
    PROVE  Served(r)' /\ (helper'[r].pc = "off" =>
                            \/ \E c \in Conts : Servers' = {c}
                            \/ Servers' = {} /\ Excused({"undo", "crash"})')
<1> DEFINE h == helper[r].pc
           g == helper'[r].pc
           old == req[r].at
<1>1. /\ req'[r].at = old /\ old \in Conts /\ r \in Conts /\ old # r
      /\ \A c \in Conts : conts[c].on \in Live \cup {"off", "absent"}
  <2>1. /\ old \in Conts /\ r \in Conts /\ old # r
        /\ \A c \in Conts : conts[c].on \in Live \cup {"off", "absent"}
    BY DEF TypeOK, Asking, Conts, Births, Container
  <2>2. CASE Forget(old)
    BY <2>1, <2>2, ForgetEffect
  <2>3. CASE UNCHANGED req
    BY <2>1, <2>3
  <2> QED BY <2>1, <2>2, <2>3 DEF HelperMove
<1>2. /\ "off" \notin Live /\ "absent" \notin Live /\ "boot" \in Live
  BY DEF Live
<1>3. Served(r)
  BY DEF OneAtATime
<1>4. HelperFlow(h, g)
  BY DEF HelperMove
<1>5. \A c \in Conts : Same(c) => (conts'[c].on \in Live <=> conts[c].on \in Live)
  BY DEF Same
<1>6. CASE g = "new"
  <2>1. Servers = {old}
    BY <1>3, <1>4, <1>6 DEF Served, HelperFlow
  <2>2. /\ conts'[old].on = "off" /\ \A c \in Conts \ {old} : Same(c)
    BY <1>6 DEF HelperMove
  <2>3. Servers' = {}
    BY <1>2, <1>5, <2>1, <2>2 DEF Servers
  <2> QED BY <1>1, <1>6, <2>2, <2>3 DEF Served
<1>7. CASE g = "start"
  <2>1. Servers = {} /\ conts[old].on = "off"
    BY <1>3, <1>4, <1>7 DEF Served, HelperFlow
  <2>2. conts'[r].on = "off" /\ \A c \in Conts \ {r} : Same(c)
    BY <1>7 DEF HelperMove
  <2>3. Servers' = {}
    BY <1>2, <1>5, <2>1, <2>2 DEF Servers
  <2> QED BY <1>1, <1>7, <2>1, <2>2, <2>3 DEF Served, Same
<1>8. CASE g = "finish"
  <2>1. Servers = {}
    BY <1>3, <1>4, <1>8 DEF Served, HelperFlow
  <2>2. conts'[r].on = "boot" /\ \A c \in Conts \ {r} : Same(c)
    BY <1>8 DEF HelperMove
  <2>3. Servers' = {r}
    BY <1>1, <1>2, <1>5, <2>1, <2>2 DEF Servers
  <2> QED BY <1>8, <2>3 DEF Served
<1>9. CASE h = "undo"
  <2>1. Servers = {old} \/ (Servers = {} /\ conts[old].on = "off")
    BY <1>3, <1>9 DEF Served
  <2>2. g = "off" /\ Undoing(r)
    BY <1>4, <1>9 DEF HelperMove, HelperFlow
  <2>3. CASE "crash" \in stray' /\ \A c \in Conts : Same(c)
    <3>1. Servers' = Servers
      BY <1>5, <2>3, ServersKept
    <3> QED BY <1>1, <2>1, <2>2, <2>3, <3>1 DEF Excused, Served
  <2>4. CASE /\ \A c \in Conts \ {r, old} : Same(c)
             /\ Same(r) \/ conts'[r].on = "absent"
             /\ Same(old) /\ (conts[old].on \notin Live => "undo" \in stray')
    <3>1. r \notin Servers
      BY <1>1, <2>1
    <3>2. Servers' = Servers
      BY <1>1, <1>2, <1>5, <2>4, <3>1 DEF Servers
    <3> QED BY <1>1, <1>2, <2>1, <2>2, <2>4, <3>2 DEF Excused, Served
  <2>5. CASE /\ \A c \in Conts \ {r, old} : Same(c)
             /\ Same(r) \/ conts'[r].on = "absent"
             /\ conts[old].on = "off" /\ conts'[old].on = "boot"
    <3>1. Servers = {}
      BY <1>1, <1>2, <2>1, <2>5 DEF Servers
    <3>2. Servers' = {old}
      BY <1>1, <1>2, <1>5, <2>5, <3>1 DEF Servers
    <3> QED BY <1>1, <2>2, <3>2 DEF Served
  <2> QED BY <2>2, <2>3, <2>4, <2>5 DEF Undoing
<1>10. CASE h = "finish"
  <2>1. Servers = {r} /\ g = "off"
    BY <1>3, <1>4, <1>10 DEF Served, HelperFlow
  <2>2. /\ \A c \in Conts \ {old} : Same(c)
        /\ Same(old) \/ (conts[old].on = "off" /\ conts'[old].on = "absent")
    BY <1>10 DEF HelperMove
  <2>3. Servers' = {r}
    BY <1>1, <1>2, <1>5, <2>1, <2>2 DEF Servers
  <2> QED BY <1>1, <2>1, <2>3 DEF Served
<1>11. CASE g \notin {"new", "start", "finish"} /\ h \notin {"undo", "finish"}
  <2>1. \A c \in Conts : Same(c)
    BY <1>11 DEF HelperMove
  <2>2. Servers' = Servers
    BY <1>5, <2>1, ServersKept
  <2>3. g = "off" /\ h \notin {"begin", "pull", "rename"} => Excused({"undo", "crash"})'
    BY <1>11 DEF HelperMove, Excused
  <2>4. CASE h \in {"begin", "pull", "rename", "stop"}
    <3>1. Servers' = {old}
      BY <1>3, <2>2, <2>4 DEF Served
    <3> QED BY <1>1, <1>4, <1>11, <2>4, <3>1 DEF Served, HelperFlow
  <2>5. CASE h \in {"new", "start"}
    <3>1. Servers' = {} /\ conts[old].on = "off"
      BY <1>3, <2>2, <2>5 DEF Served
    <3>2. conts'[old].on = "off"
      BY <1>1, <2>1, <3>1 DEF Same
    <3>3. g \in {"undo", "off"}
      BY <1>4, <1>11, <2>5 DEF HelperFlow
    <3> QED BY <1>1, <2>3, <2>5, <3>1, <3>2, <3>3 DEF Served
  <2> QED BY <1>4, <1>11, <2>4, <2>5 DEF HelperFlow
<1> QED BY <1>6, <1>7, <1>8, <1>9, <1>10, <1>11

LEMMA OneAtATimeStep ==
    ASSUME TypeOK, Ways, Versions, Births, Alone, OneAtATime, [Next]_vars
    PROVE  OneAtATime'
<1> DEFINE Some == \/ \E c \in Conts : Servers = {c}
                   \/ Servers = {} /\ Excused({"undo", "crash"})
<1> SUFFICES ASSUME "overlap" \notin stray'
             PROVE  /\ \A r \in Reqs : Served(r)'
                    /\ ~Helped' => Some'
  BY DEF OneAtATime
<1>1. stray \subseteq stray' /\ "overlap" \notin stray
  BY StrayGrows
<1>2. (\A r \in Reqs : Served(r)) /\ (~Helped => Some)
  BY <1>1 DEF OneAtATime
<1>3. Excused({"undo", "crash"}) => Excused({"undo", "crash"})'
  BY <1>1 DEF Excused
<1>4. /\ "off" \notin Live /\ "boot" \in Live /\ "wired" \in Live /\ "up" \in Live
  BY DEF Live
<1>5. mode = "docker" \/ mode = "binary"
  BY UpdaterAssumption DEF TypeOK
<1>6. CASE Rests
  BY <1>2, <1>3, <1>6 DEF Rests, Served, Servers, Helped
<1>7. ASSUME NEW r \in Reqs, Asks(r)
      PROVE  (\A q \in Reqs : Served(q)') /\ (~Helped' => Some')
  <2>1. Servers' = Servers /\ helper' = helper /\ conts' = conts
    BY <1>7 DEF Asks, Servers
  <2>2. helper[r].pc = "off"
    BY <1>7 DEF Asks, Ways
  <2>3. ASSUME NEW q \in Reqs PROVE Served(q)'
    <3>1. CASE q = r
      BY <2>1, <2>2, <3>1 DEF Served
    <3>2. CASE q # r
      <4>1. req'[q] = req[q]
        BY <1>7, <3>2 DEF Asks
      <4> QED BY <1>2, <2>1, <4>1 DEF Served
    <3> QED BY <3>1, <3>2
  <2> QED BY <1>2, <1>3, <2>1, <2>3 DEF Helped
<1>8. ASSUME NEW r \in Reqs, Move(r)
      PROVE  (\A q \in Reqs : Served(q)') /\ (~Helped' => Some')
  <2>1. /\ conts' = conts /\ Servers' = Servers
        /\ \A q \in Reqs : req'[q].at = req[q].at
    BY <1>8 DEF Move, Servers
  <2>2. CASE helper'[r] = helper[r]
    <3>1. \A q \in Reqs : helper'[q] = helper[q]
      BY <1>8, <2>2 DEF Move
    <3> QED BY <1>2, <1>3, <2>1, <3>1 DEF Served, Helped
  <2>3. CASE helper'[r] # helper[r]
    <3>1. req[r].pc = "launch" /\ helper'[r].pc = "begin"
      BY <1>8, <2>3 DEF Move
    <3>2. \A q \in Reqs : helper[q].pc = "off"
      <4>1. helper[r].pc = "off" /\ Installing(r)
        BY <3>1 DEF Ways, Installing, ByHelper
      <4> QED BY <1>1, <4>1, OneHelper
    <3>3. req[r].at \in Servers
      BY <1>4, <1>8 DEF Move, Servers, TypeOK, Asking
    <3>4. Servers = {req[r].at}
      BY <1>2, <3>2, <3>3 DEF Helped
    <3>5. \A q \in Reqs \ {r} : helper'[q].pc = "off"
      BY <1>8, <3>2 DEF Move
    <3> QED BY <2>1, <3>1, <3>4, <3>5 DEF Served, Helped
  <2> QED BY <2>2, <2>3
<1>9. ASSUME NEW r \in Reqs, Execs(r)
      PROVE  (\A q \in Reqs : Served(q)') /\ (~Helped' => Some')
  <2>1. mode = "binary" /\ helper' = helper /\ \A q \in Reqs : helper[q].pc = "off"
    BY <1>5, <1>9 DEF Execs, Ways
  <2>2. CASE UNCHANGED conts
    BY <1>2, <1>3, <2>1, <2>2 DEF Served, Servers, Helped
  <2>3. CASE conts'[Home].on = "boot" /\ \A c \in Conts \ {Home} : Same(c)
    <3>1. \A c \in Conts \ {Home} : c \notin Servers'
      BY <2>1, <2>3 DEF Ways, Same, Servers, Conts, Live
    <3>2. Home \in Servers' /\ Home \in Conts
      BY <1>4, <2>3 DEF Servers, Conts
    <3>3. Servers' = {Home}
      BY <3>1, <3>2 DEF Servers
    <3> QED BY <2>1, <3>2, <3>3 DEF Served
  <2> QED BY <1>9, <2>2, <2>3 DEF Execs
<1>10. ASSUME NEW r \in Reqs, HelperMove(r)
       PROVE  (\A q \in Reqs : Served(q)') /\ (~Helped' => Some')
  <2>1. helper[r].pc # "off" /\ \A q \in Reqs \ {r} : helper'[q] = helper[q]
    BY <1>10 DEF HelperMove, HelperFlow
  <2>2. \A q \in Reqs \ {r} : helper'[q].pc = "off"
    BY <1>1, <2>1, OneHelper DEF Installing
  <2>3. \A q \in Reqs \ {r} : Served(q)'
    BY <2>2 DEF Served
  <2>4. /\ Served(r)'
        /\ helper'[r].pc = "off" => Some'
    BY <1>1, <1>10, HelperServes
  <2> QED BY <2>3, <2>4 DEF Helped
<1>11. ASSUME NEW c \in Conts, Serves(c)
       PROVE  (\A q \in Reqs : Served(q)') /\ (~Helped' => Some')
  <2>1. helper' = helper
    BY <1>11 DEF Serves
  <2>2. \A q \in Reqs : req'[q].at = req[q].at
    BY <1>11, ForgetEffect DEF Serves
  <2>3. c \in Servers
    BY <1>4, <1>11 DEF Serves, Servers
  <2>4. CASE conts'[c].on \in Live
    <3>1. Servers' = Servers
      BY <1>11, <2>3, <2>4 DEF Serves, Servers, Same
    <3>2. \A d \in Conts : conts[d].on = "off" => conts'[d].on = "off"
      BY <1>4, <1>11, <2>3 DEF Serves, Same, Servers
    <3> QED BY <1>2, <1>3, <2>1, <2>2, <3>1, <3>2 DEF Served, Helped, TypeOK, Asking
  <2>5. CASE conts'[c].on \notin Live
    <3>1. conts'[c].on = "off" /\ conts'[c].ver = 0 /\ "crash" \in stray'
      BY <1>4, <1>11, <2>5 DEF Serves
    <3>2. mode = "binary"
      BY <1>5, <1>11, <2>3, <2>5, <3>1 DEF Serves, Versions, Servers, Live
    <3>3. \A q \in Reqs : helper'[q].pc = "off"
      BY <2>1, <3>2 DEF Ways
    <3>4. Servers = {c}
      BY <2>3, <3>2 DEF Ways, Servers, Conts, Live
    <3>5. Servers' = {}
      BY <1>11, <2>5, <3>4 DEF Serves, Servers, Same
    <3> QED BY <3>1, <3>3, <3>5 DEF Served, Excused
  <2> QED BY <2>4, <2>5
<1> QED BY <1>6, <1>7, <1>8, <1>9, <1>10, <1>11, Kinds

-----------------------------------------------------------------------------
(* What the status says of the version that runs.                          *)

\* What a step of a request does to the status and the target.
LEMMA TargetStep ==
    ASSUME TypeOK, NEW r \in Reqs, Steps(r), ~Exec(r)
    PROVE  /\ st'.status = "completed" =>
                 /\ st.status = "completed" /\ st'.target = st.target
                 /\ req[r].pc \notin {"pull", "restart"}
                 /\ req[r].pc = "stat" => req'[r].pc = "done"
           /\ req[r].pc \in (Looking \ {"lookup"}) \cup {"begin"} =>
                 /\ st'.target = st.target
                 /\ st'.status = st.status \/ st'.status \notin {"restarting", "completed"}
           /\ req[r].pc = "told" =>
                 st'.target = IF req[r].act = "rollback" THEN 0 ELSE req[r].ver
           /\ req[r].pc = "lookup" =>
                 ((\E q \in Reqs : Installing(q)) => "checked" \in stray')
           /\ req[r].pc \notin {"install", "restore"} => exe' = exe
<1>1. /\ st \in StateFile
      /\ Failure.status = "failed" /\ Failure.target = st.target
      /\ \A s \in Status : /\ [st EXCEPT !.status = s].status = s
                           /\ [st EXCEPT !.status = s].target = st.target
  BY StateEffect DEF TypeOK, StateFile
<1>2. {"backing_up", "checking", "pulling", "recreating", "restarting", "rolling_back",
       "failed", "available", "idle"} \subseteq Status
  BY DEF Status, Active
<1>3. {"mark", "backup", "gate", "resolve", "guard", "check", "guard2"} \subseteq Looking
  BY DEF Looking
<1>4. CASE \/ MarkBackingUp(r) \/ CreateBackup(r) \/ Gate(r) \/ Guard(r) \/ CheckBegins(r)
           \/ Resolve(r) \/ Guard2(r) \/ GuardBack(r) \/ Begin(r)
  <2>1. /\ st' \in {st, Failure, [st EXCEPT !.status = "backing_up"],
                    [st EXCEPT !.status = "checking"]}
        /\ exe' = exe
    BY <1>4 DEF MarkBackingUp, CreateBackup, Gate, Guard, CheckBegins, Resolve, Guard2,
                GuardBack, Begin, Fail, files
  <2>2. req[r].pc \in {"mark", "backup", "gate", "guard", "check", "resolve", "guard2", "begin"}
    BY <1>4 DEF MarkBackingUp, CreateBackup, Gate, Guard, CheckBegins, Resolve, Guard2,
                GuardBack, Begin, At
  <2>3. /\ st'.target = st.target
        /\ st'.status = st.status \/ st'.status \in {"failed", "backing_up", "checking"}
    <3>1. CASE st' = [st EXCEPT !.status = "backing_up"]
      BY <1>1, <1>2, <3>1
    <3>2. CASE st' = [st EXCEPT !.status = "checking"]
      BY <1>1, <1>2, <3>2
    <3>3. CASE st' \in {st, Failure}
      BY <1>1, <3>3
    <3> QED BY <2>1, <3>1, <3>2, <3>3
  <2> QED BY <2>1, <2>2, <2>3
<1>5. CASE CheckEnds(r)
  <2> DEFINE s == IF hasUpdate(Running(r)) THEN "available" ELSE "idle"
             found == [st EXCEPT !.target = latest, !.status = s]
  <2>1. /\ st' \in {Failure, found, [found EXCEPT !.status = "failed"]}
        /\ req[r].pc = "lookup" /\ exe' = exe
        /\ (\E q \in Reqs : Installing(q)) => "checked" \in stray'
    BY <1>5 DEF CheckEnds, At, files
  <2>2. found.status \in {"available", "idle"} /\ [found EXCEPT !.status = "failed"].status = "failed"
    BY <1>1, <1>2 DEF StateFile
  <2>3. st'.status # "completed"
    BY <1>1, <2>1, <2>2
  <2>4. "lookup" \notin (Looking \ {"lookup"}) \cup {"begin"}
    OBVIOUS
  <2> QED BY <2>1, <2>3, <2>4
<1>6. CASE \/ Pull(r) \/ Fetch(r) \/ Save(r) \/ Note(r) \/ Install(r) \/ Restart(r)
           \/ BackStarts(r) \/ Keep(r) \/ Restore(r)
  <2>1. /\ req[r].pc \in ByFile
        /\ req[r].pc \notin {"install", "restore"} => exe' = exe
    BY <1>6 DEF Pull, Fetch, Save, Note, Install, Restart, BackStarts, Keep, Restore,
                files, At, ByFile
  <2>2. req[r].pc \notin Looking \cup {"begin", "told", "lookup"}
    BY <2>1 DEF ByFile, Looking
  <2>3. /\ [st EXCEPT !.status = "pulling", !.target = req[r].ver].status = "pulling"
        /\ [st EXCEPT !.status = "rolling_back", !.back = req[r].ver].status = "rolling_back"
        /\ [st EXCEPT !.previous = Running(r), !.back = 0].status = st.status
        /\ [st EXCEPT !.previous = Running(r), !.back = 0].target = st.target
    BY <1>1 DEF StateFile
  <2>4. ASSUME st'.status = "completed"
        PROVE  /\ st.status = "completed" /\ st'.target = st.target
               /\ req[r].pc \notin {"pull", "restart"}
               /\ req[r].pc = "stat" => req'[r].pc = "done"
    <3>1. CASE Pull(r) \/ Fetch(r) \/ Restart(r)
      <4>1. st' \in {Failure, [st EXCEPT !.status = "pulling", !.target = req[r].ver],
                     [st EXCEPT !.status = "recreating"], [st EXCEPT !.status = "restarting"]}
        BY <3>1 DEF Pull, Fetch, Restart
      <4> QED BY <1>1, <1>2, <2>3, <2>4, <4>1
    <3>2. CASE BackStarts(r)
      <4>1. /\ req[r].pc = "stat"
            /\ \/ st' = [st EXCEPT !.status = "rolling_back", !.back = req[r].ver]
               \/ st' = st /\ Go(r, "done")
        BY <3>2 DEF BackStarts, At
      <4>2. Go(r, "done") => req'[r].pc = "done"
        BY Points, GoEffect
      <4> QED BY <2>3, <2>4, <4>1, <4>2
    <3>3. CASE Save(r) \/ Note(r) \/ Install(r) \/ Keep(r) \/ Restore(r)
      <4>1. /\ st' \in {st, Failure, [st EXCEPT !.previous = Running(r), !.back = 0]}
            /\ req[r].pc \in {"save", "note", "install", "keep", "restore"}
        BY <3>3 DEF Save, Note, Install, Keep, Restore, At
      <4> QED BY <1>1, <2>3, <2>4, <4>1
    <3> QED BY <1>6, <3>1, <3>2, <3>3
  <2> QED BY <2>1, <2>2, <2>4
<1>7. CASE Create(r) \/ Launch(r)
  <2>1. /\ st' \in {st, Failure, [st EXCEPT !.previous = Running(r), !.back = 0]}
        /\ req[r].pc \in {"create", "launch"} /\ exe' = exe
    BY <1>7 DEF Create, Launch, At, Fail, files
  <2>2. /\ [st EXCEPT !.previous = Running(r), !.back = 0].status = st.status
        /\ [st EXCEPT !.previous = Running(r), !.back = 0].target = st.target
    BY <1>1 DEF StateFile
  <2> QED BY <1>1, <2>1, <2>2 DEF Looking
<1>8. CASE Told(r)
  <2>1. /\ req[r].pc = "told" /\ exe' = exe
        /\ st' = IF req[r].act = "rollback"
                 THEN [st EXCEPT !.status = "restarting", !.back = req[r].ver, !.target = 0]
                 ELSE [st EXCEPT !.status = "restarting", !.target = req[r].ver,
                                 !.previous = Running(r), !.back = 0]
    BY <1>8 DEF Told, At, files
  <2>2. /\ st'.status = "restarting"
        /\ st'.target = IF req[r].act = "rollback" THEN 0 ELSE req[r].ver
    BY <1>1, <2>1 DEF StateFile
  <2> QED BY <2>1, <2>2 DEF Looking
<1> QED BY <1>4, <1>5, <1>6, <1>7, <1>8 DEF Steps

\* What a helper does to them.
LEMMA HelperTarget ==
    ASSUME TypeOK, NEW r \in Reqs, HelperSteps(r) \/ HelperDies(r)
    PROVE  /\ st'.status = "completed" =>
                 /\ st'.target = st.target
                 /\ \/ st' = st
                    \/ helper[r].pc = "finish" /\ req[r].act # "rollback"
           /\ helper[r].pc = "begin" /\ helper'[r].pc # "off" =>
                 IF req[r].act = "rollback" THEN st'.status = "rolling_back"
                                            ELSE st'.target = req[r].ver
           /\ helper[r].pc # "begin" /\ helper'[r].pc # "off" =>
                 /\ st'.target = st.target
                 /\ st'.status = st.status \/ st'.status = "recreating"
<1>1. /\ st \in StateFile
      /\ Failure.status = "failed" /\ Failure.target = st.target
      /\ [st EXCEPT !.status = "recreating"].status = "recreating"
      /\ [st EXCEPT !.status = "recreating"].target = st.target
      /\ [st EXCEPT !.status = "completed"].status = "completed"
      /\ [st EXCEPT !.status = "completed"].target = st.target
      /\ [st EXCEPT !.status = "rolling_back", !.back = req[r].ver].status = "rolling_back"
      /\ [st EXCEPT !.status = "pulling", !.target = req[r].ver].status = "pulling"
      /\ [st EXCEPT !.status = "pulling", !.target = req[r].ver].target = req[r].ver
      /\ [st EXCEPT !.status = "restarting", !.back = req[r].ver, !.target = 0].status
            = "restarting"
  BY StateEffect DEF TypeOK, StateFile
<1>2. HelperGo(r, "off") => helper'[r].pc = "off"
  BY HelperEffect DEF HelperPoint
<1>3. CASE HelperFails(r)
  BY <1>1, <1>2, <1>3 DEF HelperFails
<1>4. CASE HelperBegins(r)
  <2>1. /\ helper[r].pc = "begin"
        /\ st' = IF req[r].act = "rollback"
                 THEN [st EXCEPT !.status = "rolling_back", !.back = req[r].ver]
                 ELSE [st EXCEPT !.status = "pulling", !.target = req[r].ver]
    BY <1>4 DEF HelperBegins, HelperAt
  <2> QED BY <1>1, <2>1
<1>5. CASE HelperPulls(r) /\ ~HelperFails(r)
  <2>1. helper[r].pc = "pull" /\ st' = [st EXCEPT !.status = "recreating"]
    BY <1>5 DEF HelperPulls, HelperAt
  <2> QED BY <1>1, <2>1
<1>6. CASE /\ HelperRenames(r) \/ HelperStops(r) \/ HelperCreates(r) \/ HelperStarts(r)
           /\ ~HelperFails(r)
  <2>1. helper[r].pc # "begin" /\ st' = st
    BY <1>6 DEF HelperRenames, HelperStops, HelperCreates, HelperStarts, HelperAt
  <2> QED BY <2>1
<1>7. CASE HelperFinishes(r)
  <2>1. /\ helper[r].pc = "finish" /\ helper'[r].pc = "off"
        /\ st' = IF req[r].act = "rollback"
                 THEN [st EXCEPT !.status = "restarting", !.back = req[r].ver, !.target = 0]
                 ELSE [st EXCEPT !.status = "completed"]
    BY <1>2, <1>7 DEF HelperFinishes, HelperAt
  <2> QED BY <1>1, <2>1
<1>8. CASE HelperDies(r)
  <2>1. st' = st /\ helper'[r].pc = "off"
    BY <1>2, <1>8 DEF HelperDies
  <2> QED BY <2>1
<1>9. HelperUndoes(r) => HelperFails(r)
  BY DEF HelperUndoes
<1> QED BY <1>3, <1>4, <1>5, <1>6, <1>7, <1>8, <1>9 DEF HelperSteps

\* Of a server that boots, what it makes of the file.
LEMMA BootTarget ==
    ASSUME TypeOK, NEW c \in Conts, Boot(c)
    PROVE  /\ st'.target \in {st.target, 0}
           /\ st'.status = "completed" =>
                 \/ st' = st
                 \/ st'.target = 0
                 \/ st'.target = st.target /\ conts[c].ver = st.target
           /\ st'.status = "restarting" => FALSE
           /\ st.status # "restarting" => st' = st
<1>1. st' = Finalize(conts[c].ver)
  BY DEF Boot
<1>2. /\ Failure.status = "failed" /\ Failure.target = st.target
      /\ [st EXCEPT !.status = "completed"].status = "completed"
      /\ [st EXCEPT !.status = "completed"].target = st.target
  BY StateEffect DEF TypeOK, StateFile
<1> QED BY <1>1, <1>2 DEF Finalize

\* While one helper works, or none, at most one server runs.
LEMMA AtMostOne ==
    ASSUME TypeOK, OneAtATime, "overlap" \notin stray, NEW c \in Servers
    PROVE  Servers = {c}
<1>1. CASE Helped
  <2>1. PICK r \in Reqs : helper[r].pc # "off"
    BY <1>1 DEF Helped
  <2>2. Served(r) /\ \A q \in Reqs : Served(q)
    BY DEF OneAtATime
  <2>3. CASE helper[r].pc \in {"begin", "pull", "rename", "stop", "new", "start", "undo", "finish"}
    <3>1. \E d : Servers = {d} \/ Servers = {}
      BY <2>2, <2>3 DEF Served
    <3> QED BY <3>1
  <2> QED BY <2>1, <2>3 DEF TypeOK, Working, HelperPoint
<1>2. CASE ~Helped
  BY <1>2 DEF OneAtATime
<1> QED BY <1>1, <1>2

\* The target is what serves, for each step.
LEMMA TargetServesStep ==
    ASSUME TypeOK, Ways, Versions, Births, Alone, OneAtATime, TargetServes, FileSettled,
           Aimed, [Next]_vars, "overlap" \notin stray
    PROVE  TargetServes'
<1> SUFFICES ASSUME st'.status = "completed", st'.target # 0, NEW c \in Servers'
             PROVE  conts'[c].ver = st'.target
  BY DEF TargetServes
<1>a. /\ "off" \notin Live /\ "absent" \notin Live
      /\ c \in Conts /\ conts'[c].on \in Live
  BY DEF Live, Servers
<1>b. mode = "docker" \/ mode = "binary"
  BY UpdaterAssumption DEF TypeOK
<1>1. ASSUME st.status = "completed", st'.target = st.target, c \in Servers,
             conts'[c].ver = conts[c].ver
      PROVE  conts'[c].ver = st'.target
  BY <1>1 DEF TargetServes
<1>2. CASE Rests
  BY <1>1, <1>2 DEF Rests, Servers
<1>3. ASSUME NEW r \in Reqs, Asks(r) PROVE conts'[c].ver = st'.target
  BY <1>1, <1>3 DEF Asks, Servers
<1>4. ASSUME NEW r \in Reqs, Steps(r), Move(r), ~Exec(r) PROVE conts'[c].ver = st'.target
  <2>1. st.status = "completed" /\ st'.target = st.target
    BY <1>4, TargetStep
  <2> QED BY <1>1, <1>4, <2>1 DEF Move, Servers
<1>5. ASSUME NEW r \in Reqs, Execs(r) PROVE conts'[c].ver = st'.target
  <2>1. mode = "binary" /\ r \in pending
    BY <1>5, <1>b DEF Execs, Ways
  <2>2. st' = st
    BY <1>5, StateEffect DEF Execs
  <2> QED BY <2>1, <2>2 DEF FileSettled
<1>6. ASSUME NEW r \in Reqs, HelperSteps(r) \/ HelperDies(r), HelperMove(r)
      PROVE  conts'[c].ver = st'.target
  <2> DEFINE h == helper[r].pc
             g == helper'[r].pc
             old == req[r].at
  <2>1. /\ r \in Conts /\ old \in Conts /\ HelperFlow(h, g) /\ Served(r)
    BY <1>6 DEF Conts, TypeOK, Asking, HelperMove, OneAtATime
  <2>2. /\ st'.target = st.target
        /\ st' = st \/ (h = "finish" /\ req[r].act # "rollback")
    BY <1>6, HelperTarget
  <2>3. CASE c \in Servers /\ conts'[c].ver = conts[c].ver
    <3>1. CASE st' = st
      BY <1>1, <2>3, <3>1
    <3>2. CASE h = "finish" /\ req[r].act # "rollback"
      <4>1. c = r
        BY <2>1, <2>3, <3>2 DEF Served
      <4>2. conts[r].ver = req[r].ver
        BY <2>3, <3>2, <4>1 DEF Versions, Servers, Live
      <4>3. st.target \in {0, req[r].ver}
        BY <3>2 DEF Aimed
      <4> QED BY <2>2, <2>3, <4>1, <4>2, <4>3
    <3> QED BY <2>2, <3>1, <3>2
  <2>4. CASE g = "finish"
    <3>1. h = "start" /\ st' = st
      BY <2>1, <2>2, <2>4 DEF HelperFlow
    <3>2. Servers = {}
      BY <2>1, <3>1 DEF Served
    <3>3. c = r
      BY <1>6, <1>a, <2>4, <3>2 DEF HelperMove, Same, Servers
    <3>4. conts[r].on = "off"
      BY <3>1 DEF Births, Unborn
    <3>5. conts'[r].ver = req[r].ver
      BY <1>6, <2>4, <3>1, <3>4 DEF HelperMove, Versions
    <3>6. st.target \in {0, req[r].ver}
      BY <3>1 DEF Aimed
    <3> QED BY <2>2, <3>3, <3>5, <3>6
  <2>5. CASE g \in {"new", "start"}
    <3>1. Same(c) /\ c \in Servers
      BY <1>6, <1>a, <2>5 DEF HelperMove, Same, Servers
    <3> QED BY <2>3, <3>1 DEF Same
  <2>6. CASE h = "undo"
    <3>1. ~HelperSteps(r)
      <4>1. HelperUndoes(r) => st'.status = "failed"
        BY StateEffect DEF HelperUndoes, HelperFails
      <4>2. HelperSteps(r) => HelperUndoes(r)
        BY <2>6 DEF HelperSteps, HelperBegins, HelperPulls, HelperRenames, HelperStops,
             HelperCreates, HelperStarts, HelperFinishes, HelperAt
      <4> QED BY <4>1, <4>2
    <3>2. conts' = conts
      BY <1>6, <3>1 DEF HelperDies
    <3> QED BY <2>3, <3>2 DEF Servers
  <2>7. CASE h = "finish"
    <3>1. Same(c) /\ c \in Servers
      BY <1>6, <1>a, <2>7 DEF HelperMove, Same, Servers
    <3> QED BY <2>3, <3>1 DEF Same
  <2>8. CASE g \notin {"new", "start", "finish"} /\ h \notin {"undo", "finish"}
    <3>1. Same(c) /\ c \in Servers
      BY <1>6, <1>a, <2>8 DEF HelperMove, Same, Servers
    <3> QED BY <2>3, <3>1 DEF Same
  <2> QED BY <2>4, <2>5, <2>6, <2>7, <2>8
<1>7. ASSUME NEW d \in Conts, Boot(d) \/ Reconcile(d) \/ Crash(d), Serves(d)
      PROVE  conts'[c].ver = st'.target
  <2>1. c \in Servers
    BY <1>7, <1>a DEF Serves, Same, Servers, Live
  <2>2. CASE Boot(d)
    <3>1. d \in Servers /\ conts'[c].ver = conts[c].ver
      BY <1>7, <1>a, <2>2 DEF Boot, Servers, Live, TypeOK, Container
    <3>2. c = d
      BY <2>1, <3>1, AtMostOne
    <3> QED BY <1>1, <2>1, <2>2, <3>1, <3>2, BootTarget
  <2>3. CASE Reconcile(d)
    <3>1. conts'[c].ver = conts[c].ver /\ st' = st
      BY <1>7, <1>a, <2>3 DEF Reconcile, TypeOK, Container
    <3> QED BY <1>1, <2>1, <3>1
  <2>4. CASE Crash(d)
    <3>1. st' = st
      BY <2>4 DEF Crash
    <3>2. mode = "binary" => exe = conts[Home].ver /\ d = Home
      BY <2>4, <3>1 DEF FileSettled, Crash, Ways, Conts, Live
    <3>3. conts'[c].ver = conts[c].ver
      <4>1. CASE c = d
        BY <1>b, <2>4, <3>2, <4>1 DEF Crash, TypeOK, Container
      <4>2. CASE c # d
        BY <1>7, <1>a, <4>2 DEF Serves, Same
      <4> QED BY <4>1, <4>2
    <3> QED BY <1>1, <2>1, <3>1, <3>3
  <2> QED BY <1>7, <2>2, <2>3, <2>4
<1> QED BY <1>2, <1>3, <1>4, <1>5, <1>6, <1>7, Kinds, ExecEffect

\* A file that is settled stays so until an update writes its own status.
LEMMA FileSettledStep ==
    ASSUME TypeOK, Ways, Versions, Births, FileRuns, FileSettled, [Next]_vars
    PROVE  FileSettled'
<1> SUFFICES ASSUME mode' = "binary", st'.status = "completed"
             PROVE  /\ exe' = conts'[Home].ver /\ pending' = {} /\ conts'[Home].on \in Live
                    /\ \A r \in Reqs : req'[r].pc \notin ByFile \ {"pull", "stat"}
  BY DEF FileSettled
<1> DEFINE Settled == /\ exe = conts[Home].ver /\ pending = {} /\ conts[Home].on \in Live
                      /\ \A r \in Reqs : req[r].pc \notin ByFile \ {"pull", "stat"}
<1>a. mode = "binary"
  BY Kinds DEF Rests, Asks, Move, Execs, HelperMove, Serves
<1>b. Home \in Conts /\ {"boot", "wired", "up"} \subseteq Live
  BY DEF Conts, Live
<1>1. st.status = "completed" => Settled
  BY <1>a DEF FileSettled
<1>2. CASE Rests
  BY <1>1, <1>2 DEF Rests
<1>3. ASSUME NEW r \in Reqs, Request(r), Asks(r) PROVE Settled'
  <2>1. UNCHANGED <<st, conts, pending, exe>> /\ \A q \in Reqs \ {r} : req'[q] = req[q]
    BY <1>3 DEF Asks, Request, files
  <2>2. req'[r].pc \notin ByFile
    BY <1>3 DEF Asks, ByFile
  <2> QED BY <1>1, <2>1, <2>2
<1>4. ASSUME NEW r \in Reqs, Steps(r), Move(r), ~Exec(r) PROVE Settled'
  <2>1. /\ st.status = "completed" /\ req[r].pc \notin {"pull", "restart"}
        /\ req[r].pc = "stat" => req'[r].pc = "done"
        /\ req[r].pc \notin {"install", "restore"} => exe' = exe
    BY <1>4, TargetStep
  <2>2. Settled
    BY <1>1, <2>1
  <2>3. exe' = exe
    BY <2>1, <2>2 DEF ByFile
  <2>4. /\ UNCHANGED <<conts, pending>> /\ \A q \in Reqs \ {r} : req'[q] = req[q]
    BY <1>4, <2>1 DEF Move
  <2>5. req'[r].pc \notin ByFile \ {"pull", "stat"}
    BY <1>4, <2>1, <2>2 DEF Move, Flow, ByFile
  <2> QED BY <2>2, <2>3, <2>4, <2>5
<1>5. ASSUME NEW r \in Reqs, Execs(r) PROVE Settled'
  <2>1. st' = st /\ r \in pending
    BY <1>5, StateEffect DEF Execs
  <2> QED BY <1>1, <2>1
<1>6. ASSUME NEW r \in Reqs, HelperMove(r) PROVE Settled'
  BY <1>6, <1>a DEF HelperMove, HelperFlow, Ways
<1>7. ASSUME NEW c \in Conts, Boot(c) \/ Reconcile(c) \/ Crash(c), Serves(c) PROVE Settled'
  <2>1. c = Home
    BY <1>7, <1>a DEF Serves, Ways, Conts, Live
  <2>2. CASE Boot(c)
    <3>1. Settled
      <4>1. conts[Home].on = "boot"
        BY <2>1, <2>2 DEF Boot
      <4> QED BY <1>a, <1>b, <4>1 DEF FileRuns, ByFile
    <3>2. /\ UNCHANGED <<exe, req, pending>>
          /\ conts'[Home].on = "wired" /\ conts'[Home].ver = conts[Home].ver
      BY <1>b, <2>1, <2>2 DEF Boot, files, TypeOK, Container
    <3> QED BY <1>b, <3>1, <3>2
  <2>3. CASE Reconcile(c)
    <3>1. /\ UNCHANGED <<st, exe, req, pending>>
          /\ conts'[Home].on = "up" /\ conts'[Home].ver = conts[Home].ver
      BY <1>b, <2>1, <2>3 DEF Reconcile, files, TypeOK, Container
    <3> QED BY <1>1, <1>b, <3>1
  <2>4. CASE Crash(c)
    <3>1. st' = st /\ Settled
      BY <1>1, <2>4 DEF Crash
    <3>2. conts[Home].ver # 0
      BY <1>a, <1>b, <3>1 DEF Versions
    <3>3. conts[Home].on \notin {"boot", "wired"} \/ conts[Home].on \in {"boot", "wired"}
      OBVIOUS
    <3>4. Forget(Home)
      BY <2>1, <2>4 DEF Crash
    <3>5. conts'[Home].ver = exe /\ conts'[Home].on = "boot" /\ exe' = exe
      <4>1. conts'[Home].ver = exe /\ conts'[Home].on = (IF exe = 0 THEN "off" ELSE "boot")
        BY <1>a, <1>b, <2>1, <2>4 DEF Crash, TypeOK, Container
      <4>2. exe' = exe
        BY <2>4 DEF Crash, files
      <4> QED BY <3>1, <3>2, <4>1, <4>2
    <3>6. /\ pending' = {}
          /\ \A r \in Reqs : req'[r].pc \notin ByFile
      <4>1. pending' \subseteq pending
        BY <1>b, <3>4, ForgetEffect
      <4>2. \A r \in Reqs : req'[r].pc \in {"unused", "done"}
        BY <1>a, <1>b, <3>4, ForgetEffect DEF Ways
      <4> QED BY <3>1, <4>1, <4>2 DEF ByFile
    <3> QED BY <1>b, <3>5, <3>6
  <2> QED BY <1>7, <2>2, <2>3, <2>4
<1> QED BY <1>2, <1>3, <1>4, <1>5, <1>6, <1>7, Kinds, ExecEffect

\* The target stays what the only helper installs.
LEMMA AimedStep ==
    ASSUME TypeOK, Ways, Births, Alone, Aimed, [Next]_vars, ~Excused({"checked", "overlap"})'
    PROVE  Aimed'
<1> DEFINE Aim(r) == helper[r].pc \notin {"off", "begin"} =>
                        IF req[r].act = "rollback"
                        THEN st.status \in {"restarting", "completed"} => st.target = 0
                        ELSE st.target \in {0, req[r].ver}
<1>0. (Aimed <=> \A r \in Reqs : Aim(r)) /\ (Aimed' <=> \A r \in Reqs : Aim(r)')
  BY DEF Aimed
<1>a. "overlap" \notin stray /\ "overlap" \notin stray' /\ "checked" \notin stray'
  BY StrayGrows DEF Excused
<1>b. Alone'
  BY AloneStep
<1>1. ASSUME NEW r \in Reqs, helper'[r] = helper[r], st' = st,
             req'[r].act = req[r].act, req'[r].ver = req[r].ver
      PROVE  Aim(r)'
  BY <1>0, <1>1
<1>2. CASE Rests
  BY <1>0, <1>1, <1>2 DEF Rests
<1>3. ASSUME NEW r \in Reqs, Asks(r) PROVE Aimed'
  <2>1. helper' = helper /\ st' = st /\ helper[r].pc = "off"
        /\ \A q \in Reqs \ {r} : req'[q] = req[q]
    BY <1>3 DEF Asks, Ways
  <2> QED BY <1>0, <2>1
<1>4. ASSUME NEW r \in Reqs, Steps(r), Move(r), ~Exec(r), NEW q \in Reqs PROVE Aim(q)'
  <2> SUFFICES ASSUME helper'[q].pc \notin {"off", "begin"} PROVE Aim(q)'
    OBVIOUS
  <2>1. helper'[q] = helper[q] /\ Installing(q) /\ Installing(q)'
    BY <1>4 DEF Move, Installing
  <2>2. req[q].pc \in {"told", "begin", "done"}
    BY <2>1 DEF Ways
  <2>3. Aim(q)
    BY <1>0
  <2>4. req'[q].act = req[q].act /\ req'[q].ver = req[q].ver
    BY <1>4, <2>2 DEF Move, Learns
  <2>5. CASE req[r].pc = "told"
    <3>1. Installing(r)
      BY <2>5 DEF Installing, ByHelper
    <3>2. r = q
      BY <1>a, <2>1, <3>1 DEF Alone
    <3>3. st'.target = IF req[q].act = "rollback" THEN 0 ELSE req[q].ver
      BY <1>4, <2>5, <3>2, TargetStep
    <3> QED BY <2>4, <3>3
  <2>6. CASE req[r].pc = "lookup"
    BY <1>4, <1>a, <2>1, <2>6, TargetStep
  <2>7. CASE req[r].pc \in (Looking \ {"lookup"}) \cup {"begin"}
    <3>1. /\ st'.target = st.target
          /\ st'.status = st.status \/ st'.status \notin {"restarting", "completed"}
      BY <1>4, <2>7, TargetStep
    <3> QED BY <2>1, <2>3, <2>4, <3>1
  <2>8. CASE req[r].pc \notin Looking \cup {"begin", "told"}
    <3>1. Installing(r)
      BY <1>4, <2>8 DEF Move, Flow, Looking, Installing, ByFile, ByHelper
    <3>2. r = q
      BY <1>a, <2>1, <3>1 DEF Alone
    <3>3. req[r].pc = "done"
      BY <2>2, <2>8, <3>2
    <3>4. Flow(req[r].pc, req'[r].pc)
      BY <1>4 DEF Move
    <3> QED BY <3>3, <3>4 DEF Flow
  <2> QED BY <2>5, <2>6, <2>7, <2>8
<1>5. ASSUME NEW r \in Reqs, Execs(r) PROVE Aimed'
  <2>1. mode = "binary"
    BY <1>5, UpdaterAssumption DEF Execs, Ways, TypeOK
  <2>2. helper' = helper
    BY <1>5 DEF Execs
  <2> QED BY <1>0, <2>1, <2>2 DEF Ways
<1>6. ASSUME NEW r \in Reqs, HelperSteps(r) \/ HelperDies(r), HelperMove(r), NEW q \in Reqs
      PROVE  Aim(q)'
  <2> SUFFICES ASSUME helper'[q].pc \notin {"off", "begin"} PROVE Aim(q)'
    OBVIOUS
  <2>1. helper[q].pc # "off" /\ helper[r].pc # "off"
    BY <1>6 DEF HelperMove, HelperFlow
  <2>2. q = r
    BY <1>a, <2>1 DEF Alone, Installing
  <2>3. req'[q].act = req[q].act /\ req'[q].ver = req[q].ver
    <3>1. req[r].at \in Conts
      BY DEF TypeOK, Asking
    <3> QED BY <1>6, <3>1, ForgetEffect DEF HelperMove
  <2>4. CASE helper[r].pc = "begin"
    <3>1. IF req[r].act = "rollback" THEN st'.status = "rolling_back"
                                     ELSE st'.target = req[r].ver
      BY <1>6, <2>2, <2>4, HelperTarget
    <3> QED BY <2>2, <2>3, <3>1
  <2>5. CASE helper[r].pc # "begin"
    <3>1. /\ st'.target = st.target
          /\ st'.status = st.status \/ st'.status = "recreating"
      BY <1>6, <2>2, <2>5, HelperTarget
    <3>2. Aim(q)
      BY <1>0
    <3> QED BY <2>1, <2>2, <2>3, <2>5, <3>1, <3>2
  <2> QED BY <2>4, <2>5
<1>7. ASSUME NEW c \in Conts, Boot(c) \/ Reconcile(c) \/ Crash(c), Serves(c), NEW q \in Reqs
      PROVE  Aim(q)'
  <2>1. helper' = helper /\ req'[q].act = req[q].act /\ req'[q].ver = req[q].ver
    BY <1>7, ForgetEffect DEF Serves
  <2>2. CASE Boot(c)
    <3>1. Aim(q)
      BY <1>0
    <3>2. /\ st'.target \in {st.target, 0} /\ st'.status # "restarting"
          /\ st'.status = "completed" => \/ st' = st
                                         \/ st'.target = 0
                                         \/ st'.target = st.target /\ st.status = "restarting"
      BY <2>2, BootTarget
    <3> QED BY <2>1, <3>1, <3>2
  <2>3. CASE Reconcile(c) \/ Crash(c)
    <3>1. st' = st
      BY <2>3 DEF Reconcile, Crash
    <3> QED BY <1>1, <2>1, <3>1
  <2> QED BY <1>7, <2>2, <2>3
<1> QED BY <1>0, <1>2, <1>3, <1>4, <1>5, <1>6, <1>7, Kinds, ExecEffect

LEMMA TruthStep ==
    ASSUME TypeOK, Ways, Versions, Births, Alone, FileRuns, OneAtATime, Truth, [Next]_vars
    PROVE  Truth'
<1> SUFFICES ASSUME ~Excused({"checked", "overlap"})'
             PROVE  TargetServes' /\ FileSettled' /\ Aimed'
  BY DEF Truth
<1>1. ~Excused({"checked", "overlap"}) /\ "overlap" \notin stray
  BY StrayGrows DEF Excused
<1>2. TargetServes /\ FileSettled /\ Aimed
  BY <1>1 DEF Truth
<1> QED BY <1>1, <1>2, TargetServesStep, FileSettledStep, AimedStep

-----------------------------------------------------------------------------
(* Who closes a row.                                                       *)

\* What a step may do to rows and trackers.
LEMMA OrphanStep ==
    ASSUME TypeOK, [Next]_vars, Orphan'
    PROVE  \/ Orphan /\ ~\E c \in Conts : Reconcile(c)
           \/ \E r \in Reqs : Exec(r) /\ Forget(Home)
           \/ \E r \in Reqs : HelperStops(r) /\ helper'[r].pc = "new"
           \/ Excused({"early", "undo", "crash"})'
<1>1. PICK r \in Reqs : row'[r] = "running" /\ trk'[r] = "off"
  BY DEF Orphan
<1>2. CASE UNCHANGED tracks /\ ~\E c \in Conts : Reconcile(c)
  BY <1>1, <1>2 DEF tracks, Orphan
<1>3. ASSUME NEW q \in Reqs, Begin(q) \/ Track(q), ~\E c \in Conts : Reconcile(c)
      PROVE  Orphan
  <2>1. CASE Begin(q)
    BY <1>1, <2>1 DEF Begin, tracks, Orphan, TypeOK
  <2>2. CASE Track(q)
    <3>1. mapLegacyStatus(st.status) \in {"running", "succeeded", "failed", "idle"}
      BY DEF mapLegacyStatus, TypeOK, StateFile, Status
    <3>2. trk'[q] = "off" => row'[q] # "running"
      BY <2>2, <3>1 DEF Track, TypeOK
    <3>3. \A p \in Reqs \ {q} : row'[p] = row[p] /\ trk'[p] = trk[p]
      BY <2>2 DEF Track, TypeOK
    <3> QED BY <1>1, <3>2, <3>3 DEF Orphan
  <2> QED BY <1>3, <2>1, <2>2
<1>4. ASSUME NEW c \in Conts, Reconcile(c) PROVE Excused({"early", "undo", "crash"})'
  <2>1. mapLegacyStatus(st.status) = "running" /\ row' = row
    <3>1. mapLegacyStatus(st.status) \in {"running", "succeeded", "failed", "idle"}
      BY DEF mapLegacyStatus, TypeOK, StateFile, Status
    <3> QED BY <1>1, <1>4, <3>1 DEF Reconcile, TypeOK
  <2> QED BY <1>1, <1>4, <2>1 DEF Reconcile, Excused
<1>5. ASSUME NEW c \in Conts, Crash(c) PROVE Excused({"early", "undo", "crash"})'
  BY <1>5 DEF Crash, Excused
<1>6. ASSUME NEW q \in Reqs, Exec(q) PROVE Forget(Home) \/ UNCHANGED tracks
  BY <1>6 DEF Exec, tracks
<1>7. ASSUME NEW q \in Reqs, HelperStops(q)
      PROVE  helper'[q].pc = "new" \/ UNCHANGED tracks
  <2>1. "new" \in HelperPoint
    BY DEF HelperPoint
  <2> QED BY <1>7, <2>1, HelperEffect DEF HelperStops, tracks
<1>8. ASSUME NEW q \in Reqs, Steps(q), ~Exec(q), ~Begin(q) PROVE UNCHANGED tracks
  BY <1>8 DEF Steps, MarkBackingUp, CreateBackup, Gate, Resolve, Guard, CheckBegins,
       CheckEnds, Guard2, GuardBack, Pull, Fetch, Save, Note, Install, Restart,
       BackStarts, Keep, Restore, Create, Launch, Told, tracks
<1>9. ASSUME NEW q \in Reqs, HelperSteps(q) \/ HelperDies(q), ~HelperStops(q)
      PROVE  UNCHANGED tracks
  BY <1>9 DEF HelperSteps, HelperBegins, HelperPulls, HelperRenames,
       HelperCreates, HelperStarts, HelperUndoes, HelperFinishes, HelperDies, tracks
<1>10. ASSUME NEW q \in Reqs, Request(q) PROVE UNCHANGED tracks
  BY <1>10 DEF Request, tracks
<1>11. ASSUME NEW c \in Conts, Boot(c) PROVE UNCHANGED tracks
  BY <1>11 DEF Boot, tracks
<1>12. CASE Publish \/ UNCHANGED vars
  <2>1. UNCHANGED tracks
    BY <1>12 DEF Publish, vars, tracks
  <2> QED BY <1>2, <1>4, <2>1
<1>13. CASE ~\E c \in Conts : Reconcile(c)
  BY <1>2, <1>3, <1>5, <1>6, <1>7, <1>8, <1>9, <1>10, <1>11, <1>12, <1>13 DEF Next, Steps
<1> QED BY <1>4, <1>13

LEMMA RowsAwaitedStep ==
    ASSUME TypeOK, Ways, Births, RowsAwaited, [Next]_vars
    PROVE  RowsAwaited'
<1> DEFINE Gone == {"undo", "crash", "early"}
           Starts == \E c \in Conts : conts[c].on \in {"boot", "wired"}
           Moves == \E r \in Reqs : /\ helper[r].pc \in {"new", "start", "undo"}
                                    /\ conts[req[r].at].on \notin Live
<1> SUFFICES ASSUME Orphan', ~Excused({"early", "undo", "crash"})'
             PROVE  Starts' \/ Moves'
  BY DEF RowsAwaited
<1>1. ~Excused({"early", "undo", "crash"}) /\ "undo" \notin stray' /\ "crash" \notin stray'
  BY StrayGrows DEF Excused
<1>a. /\ Home \in Conts /\ \A r \in Reqs : req[r].at \in Conts /\ r \in Conts /\ req[r].at # r
      /\ {"boot", "wired"} \subseteq Live /\ "off" \notin Live /\ "absent" \notin Live
  BY DEF Conts, TypeOK, Asking, Births, Live
<1>2. ASSUME NEW r \in Reqs, Exec(r), Forget(Home) PROVE Starts' \/ Moves'
  <2>1. CASE conts'[Home].on = "boot"
    BY <1>a, <2>1
  <2>2. CASE UNCHANGED <<conts, req, cur, trk>> /\ st' = Failure
    <3>1. conts'[Home].on = "boot" \/ Orphan
      BY <1>2, <2>2 DEF Exec, Orphan
    <3>2. Orphan => Starts \/ Moves
      BY <1>1 DEF RowsAwaited
    <3>3. helper' = helper
      BY <1>2 DEF Exec
    <3> QED BY <1>a, <2>2, <3>1, <3>2, <3>3
  <2> QED BY <1>2, <2>1, <2>2, ExecEffect DEF Execs
<1>3. ASSUME NEW r \in Reqs, HelperStops(r), helper'[r].pc = "new" PROVE Starts' \/ Moves'
  <2>1. conts'[req[r].at].on = "off" /\ req'[r].at = req[r].at
    <3>1. HelperMove(r)
      BY <1>3, <1>a, HelperMoveEffect DEF HelperSteps
    <3> QED BY <1>3, <1>a, <3>1, ForgetEffect DEF HelperMove
  <2> QED BY <1>3, <1>a, <2>1
<1>4. ASSUME Orphan, ~\E c \in Conts : Reconcile(c) PROVE Starts' \/ Moves'
  <2>1. Starts \/ Moves
    BY <1>1, <1>4 DEF RowsAwaited
  <2>2. CASE Rests
    BY <2>1, <2>2 DEF Rests
  <2>3. ASSUME NEW r \in Reqs, Asks(r) PROVE Starts' \/ Moves'
    <3>1. conts' = conts /\ helper' = helper
      BY <2>3 DEF Asks
    <3>2. \A q \in Reqs : helper[q].pc \in {"new", "start", "undo"} => req'[q] = req[q]
      BY <2>3 DEF Asks, Ways
    <3> QED BY <2>1, <3>1, <3>2
  <2>4. ASSUME NEW r \in Reqs, Move(r) PROVE Starts' \/ Moves'
    <3>1. conts' = conts /\ \A q \in Reqs : req'[q].at = req[q].at
      BY <2>4 DEF Move
    <3>2. \A q \in Reqs : helper[q].pc \in {"new", "start", "undo"} => helper'[q] = helper[q]
      BY <2>4 DEF Move, Ways
    <3> QED BY <2>1, <3>1, <3>2
  <2>5. ASSUME NEW r \in Reqs, Execs(r) PROVE Starts' \/ Moves'
    <3>1. CASE UNCHANGED <<conts, req>>
      BY <2>1, <2>5, <3>1 DEF Execs
    <3> QED BY <1>a, <2>5, <3>1 DEF Execs
  <2>6. ASSUME NEW c \in Conts, Boot(c) \/ Reconcile(c) \/ Crash(c), Serves(c)
        PROVE  Starts' \/ Moves'
    <3>1. Boot(c)
      BY <1>1, <1>4, <2>6 DEF Crash
    <3>2. conts'[c].on = "wired"
      BY <3>1 DEF Boot, TypeOK, Container
    <3> QED BY <3>2
  <2>7. ASSUME NEW r \in Reqs, HelperMove(r) PROVE Starts' \/ Moves'
    <3> DEFINE h == helper[r].pc
               g == helper'[r].pc
               old == req[r].at
    <3>1. /\ HelperFlow(h, g) /\ \A q \in Reqs \ {r} : helper'[q] = helper[q]
          /\ \A q \in Reqs : req'[q].at = req[q].at
      BY <1>a, <2>7, ForgetEffect DEF HelperMove
    <3>2. g = "off" => h \in {"begin", "pull", "rename", "undo", "finish"}
      BY <1>1, <2>7 DEF HelperMove
    <3>3. CASE g = "new"
      <4>1. conts'[old].on = "off"
        BY <2>7, <3>3 DEF HelperMove
      <4> QED BY <1>a, <3>1, <3>3, <4>1
    <3>4. CASE g = "finish"
      <4>1. conts'[r].on = "boot"
        BY <2>7, <3>4 DEF HelperMove
      <4> QED BY <1>a, <4>1
    <3>5. CASE g \notin {"new", "finish"} /\ conts'[old].on = "boot"
      BY <1>a, <3>5
    <3>6. CASE g \notin {"new", "finish"} /\ conts'[old].on # "boot"
      <4>1. \A c \in Conts : /\ conts[c].on \in {"boot", "wired"} => conts'[c].on = conts[c].on
                             /\ conts[c].on \notin Live => conts'[c].on \notin Live
        <5>1. h \in {"undo", "new"} => conts[r].on \in {"off", "absent"}
          BY DEF Births, Unborn
        <5>2. g = "start" => h = "new"
          BY <3>1 DEF HelperFlow
        <5>3. CASE g = "start"
          BY <1>a, <2>7, <5>1, <5>2, <5>3 DEF HelperMove, Same
        <5>4. CASE h = "undo"
          <6>1. Undoing(r)
            BY <2>7, <5>4 DEF HelperMove
          <6>2. Same(old)
            BY <1>1, <1>a, <3>6, <6>1 DEF Undoing
          <6>3. \A c \in Conts \ {r} : Same(c)
            BY <1>a, <6>1, <6>2 DEF Undoing
          <6>4. conts[r].on \notin Live \cup {"boot", "wired"}
            BY <1>a, <5>1, <5>4 DEF Live
          <6>5. Same(r) \/ conts'[r].on = "absent"
            BY <1>a, <6>1 DEF Undoing
          <6> QED BY <1>a, <6>3, <6>4, <6>5 DEF Same
        <5>5. CASE h = "finish"
          BY <1>a, <2>7, <5>5 DEF HelperMove, Same
        <5>6. CASE g \notin {"new", "start", "finish"} /\ h \notin {"undo", "finish"}
          BY <2>7, <5>6 DEF HelperMove, Same
        <5> QED BY <3>6, <5>3, <5>4, <5>5, <5>6
      <4>2. h \in {"new", "start"} => g \in {"start", "undo"}
        BY <3>1, <3>2, <3>6 DEF HelperFlow
      <4>3. h = "undo" => conts[old].on \in Live
        <5>1. ASSUME h = "undo" PROVE conts[old].on \in Live
          <6>1. Undoing(r)
            BY <2>7, <5>1 DEF HelperMove
          <6>2. "crash" \notin stray' /\ "undo" \notin stray'
            BY <1>1
          <6> QED BY <3>6, <6>1, <6>2 DEF Undoing
        <5> QED BY <5>1
      <4>4. CASE Starts
        BY <4>1, <4>4
      <4>5. CASE Moves
        <5>1. PICK q \in Reqs : /\ helper[q].pc \in {"new", "start", "undo"}
                                /\ conts[req[q].at].on \notin Live
          BY <4>5
        <5>2. conts'[req'[q].at].on \notin Live
          BY <1>a, <3>1, <4>1, <5>1
        <5>3. helper'[q].pc \in {"new", "start", "undo"}
          BY <3>1, <4>2, <4>3, <5>1
        <5> QED BY <5>2, <5>3
      <4> QED BY <2>1, <4>4, <4>5
    <3> QED BY <3>3, <3>4, <3>5, <3>6
  <2> QED BY <2>2, <2>3, <2>4, <2>5, <2>6, <2>7, Kinds
<1> QED BY <1>2, <1>3, <1>4, OrphanStep

-----------------------------------------------------------------------------
(* The theorems.                                                           *)

LEMMA UInvInit == Init => UInv
<1> SUFFICES ASSUME Init PROVE UInv
  OBVIOUS
<1>1. TypeOK
  <2>1. /\ st \in StateFile /\ latest \in Version /\ exe \in 0 .. MaxVersion /\ mode \in Modes
    BY Numbers DEF Init, StateFile, Status
  <2>2. /\ [ver |-> 1, name |-> Home, on |-> "up"] \in Container
        /\ [ver |-> 0, name |-> None, on |-> "absent"] \in Container
    BY Numbers DEF Container, Conts, Live
  <2>3. conts \in [Conts -> Container]
    BY <2>2 DEF Init
  <2>4. [pc |-> "unused", act |-> "check", ver |-> 0, at |-> Home] \in Asking
    BY Numbers DEF Asking, Point, Conts
  <2>5. req \in [Reqs -> Asking]
    BY <2>4 DEF Init
  <2>6. helper \in [Reqs -> Working]
    BY DEF Init, NoHelper, Working, HelperPoint
  <2>7. backups \in Seq(File)
    BY DEF Init
  <2> QED BY <2>1, <2>3, <2>5, <2>6, <2>7 DEF TypeOK, Init
<1>2. /\ \A r \in Reqs : /\ req[r].pc = "unused" /\ req[r].at = Home /\ r # Home
                         /\ helper[r].pc = "off" /\ r \notin pending
                         /\ conts[r].on = "absent" /\ r \in Conts
      /\ pending = {} /\ st.status = "idle" /\ stray = {}
      /\ conts[Home].on = "up" /\ conts[Home].ver = 1 /\ Home \in Conts
  BY UpdaterAssumption DEF Init, NoHelper, Conts
<1>3. \A c \in Conts : c = Home \/ conts[c].on = "absent"
  BY <1>2 DEF Conts
<1>4. Ways
  BY <1>2 DEF Ways, ByFile, ByHelper
<1>5. \A r \in Reqs : ~Installing(r)
  BY <1>2 DEF Installing, ByFile, ByHelper
<1>6. Versions
  BY <1>2, <1>3, <1>5 DEF Versions, Live
<1>7. Births
  BY <1>2 DEF Births
<1>8. Alone /\ FileRuns
  BY <1>2, <1>5 DEF Alone, FileRuns, Init
<1>9. Owned
  BY <1>2 DEF Owned, Active
<1>10. OneAtATime
  <2>1. Servers = {Home}
    BY <1>2, <1>3 DEF Servers, Live
  <2> QED BY <1>2, <2>1 DEF OneAtATime, Served
<1>11. Truth
  BY <1>2 DEF Truth, TargetServes, FileSettled, Aimed
<1>12. RowsAwaited /\ OneFileEach /\ BackupsTrue
  BY DEF Init, RowsAwaited, Orphan, OneFileEach, BackupsTrue
<1> QED BY <1>1, <1>4, <1>6, <1>7, <1>8, <1>9, <1>10, <1>11, <1>12 DEF UInv

LEMMA UInvStep == UInv /\ [Next]_vars => UInv'
BY TypeStep, WaysStep, VersionsStep, BirthsStep, AloneStep, FileRunsStep, OwnedStep,
   OneAtATimeStep, TruthStep, RowsAwaitedStep, BackupsHeldStep DEF UInv

\* The whole of the above, in every state.
THEOREM UpdaterInvariant == Spec => []UInv
BY UInvInit, UInvStep, PTL DEF Spec

\* Requests, helpers, containers, backups and rows keep their shapes, and the
\* status is one of the ten that UpdateState may hold.
THEOREM UpdaterTypes == Spec => []TypeOK
BY UpdaterInvariant, PTL DEF UInv

\* A status that keeps every other update out (isUpdateTaskActive) is held by
\* somebody who will move it on, unless it was left behind in one of the five
\* ways that the model names.
THEOREM ActiveIsOwned == Spec => []ActiveOwned
<1>1. UInv => ActiveOwned
  <2> SUFFICES ASSUME UInv, isUpdateTaskActive
               PROVE  \/ \E r \in Reqs : req[r].pc \notin {"unused", "done"}
                      \/ Helped \/ pending # {}
                      \/ \E c \in Conts : conts[c].on \in {"boot", "wired"}
                      \/ Excused({"crash", "gate", "late", "back", "killed"})
    BY DEF ActiveOwned
  <2>1. Helped \/ Excused(LeftBehind) \/ Held
    BY DEF UInv, Owned, isUpdateTaskActive
  <2> QED BY <2>1 DEF Held, LeftBehind
<1> QED BY <1>1, UpdaterInvariant, PTL

\* One server runs on the data, not two, and none only while a helper is at work
\* or after an undoing that failed or died, as long as no two updates met.
THEOREM OneServerRuns == Spec => []OneServer
<1>1. UInv => OneServer
  <2> SUFFICES ASSUME UInv, ~Excused({"overlap"})
               PROVE  \/ Cardinality(Servers) = 1
                      \/ Servers = {} /\ (Helped \/ Excused({"undo", "crash"}))
    BY DEF OneServer
  <2>1. "overlap" \notin stray /\ TypeOK /\ OneAtATime
    BY DEF UInv, Excused
  <2>2. CASE Servers = {}
    BY <2>1, <2>2 DEF OneAtATime
  <2>3. CASE Servers # {}
    <3>1. PICK c \in Servers : TRUE
      BY <2>3
    <3>2. Servers = {c}
      BY <2>1, AtMostOne
    <3> QED BY <3>2, FS_Singleton
  <2> QED BY <2>2, <2>3
<1> QED BY <1>1, UpdaterInvariant, PTL

\* A status that says "completed" speaks of the version that every server runs,
\* unless a check replaced the target or two updates met.
THEOREM CompletedIsTrue == Spec => []CompletedTrue
<1>1. UInv => CompletedTrue
  BY DEF UInv, Truth, TargetServes, CompletedTrue, Excused
<1> QED BY <1>1, UpdaterInvariant, PTL

\* A backup holds the version of its name, or is a copy that broke off, as long
\* as every exec has worked and updates came one by one.
THEOREM BackupsAreTrue == Spec => []BackupsTrue
BY UpdaterInvariant, PTL DEF UInv

\* A row that says running is followed, or a server is to start that will close
\* it, unless one has started too early or an undoing failed or died.
THEOREM RowsAreFollowed == Spec => []RowsFollowed
<1>1. UInv => RowsFollowed
  BY DEF UInv, RowsAwaited, Orphan, RowsFollowed, Helped
<1> QED BY <1>1, UpdaterInvariant, PTL
=============================================================================
