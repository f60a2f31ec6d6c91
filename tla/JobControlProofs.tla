-------------------------- MODULE JobControlProofs --------------------------
(***************************************************************************)
(* First facts about the operators of the job table, for every table, job  *)
(* and width of the counters: what each returns is a table again, which    *)
(* entries it keeps, and what it leaves alone in them.                     *)
(*                                                                         *)
(* Then IInv of JobInvariant is inductive, for any number of jobs, of      *)
(* processes and of pipeline sizes, any arguments of fg and bg, any        *)
(* signals of other programs and any width of the counters; and the safety *)
(* properties that follow from it.                                         *)
(***************************************************************************)
EXTENDS JobInvariant, LibraryProofs, FiniteSetTheorems, SequenceTheorems, TLAPS

-----------------------------------------------------------------------------
(* Numbers and positions *)

(* A set of positions that has a member has a largest one: the smallest    *)
(* distance from the end.                                                  *)
LEMMA MaxInSet ==
  ASSUME NEW n \in Nat, NEW S \in SUBSET (1 .. n), S # {}
  PROVE  Max(S) \in S
<1> DEFINE D == {n - x : x \in S}
<1>1. D \in SUBSET Nat /\ D # {}
  <2>1. \A x \in S : n - x \in Nat
    OBVIOUS
  <2> QED BY <2>1
<1>2. PICK d \in D : \A e \in D : d <= e
  BY <1>1, SmallestMember
<1>3. PICK m \in S : d = n - m
  OBVIOUS
<1>4. \A x \in S : m >= x
  BY <1>2, <1>3
<1>5. \E x \in S : \A y \in S : x >= y
  BY <1>4
<1> QED BY <1>5 DEF Max

(* The counters of the source stay within their width.                     *)
LEMMA PlusType ==
  ASSUME NEW max \in Nat, NEW n \in 0 .. max, NEW k \in Nat
  PROVE  Plus(n, k, max) \in 0 .. max
BY DEF Plus

LEMMA MinusType ==
  ASSUME NEW max \in Nat, NEW n \in 0 .. max
  PROVE  Minus(n, max) \in 0 .. max
BY DEF Minus

(* Removing position k of a sequence without repetitions removes exactly   *)
(* the element there.                                                      *)
LEMMA RemoveAtFacts ==
  ASSUME NEW S, NEW s \in Seq(S), NEW k \in DOMAIN s
  PROVE  /\ RemoveAt(s, k) \in Seq(S)
         /\ Len(RemoveAt(s, k)) = Len(s) - 1
         /\ \A i \in 1 .. Len(s) - 1 :
              RemoveAt(s, k)[i] = IF i < k THEN s[i] ELSE s[i + 1]
<1> DEFINE a == SubSeq(s, 1, k - 1)
           b == SubSeq(s, k + 1, Len(s))
<1>1. k \in 1 .. Len(s) /\ Len(s) \in Nat
  OBVIOUS
<1>2. /\ a \in Seq(S)
      /\ Len(a) = k - 1
      /\ \A i \in 1 .. k - 1 : a[i] = s[i]
  BY <1>1, SubSeqProperties
<1>3. /\ b \in Seq(S)
      /\ Len(b) = Len(s) - k
      /\ \A i \in 1 .. Len(s) - k : b[i] = s[k + i]
  BY <1>1, SubSeqProperties
<1> HIDE DEF a, b
<1>4. /\ a \o b \in Seq(S)
      /\ Len(a \o b) = Len(s) - 1
      /\ \A i \in 1 .. Len(s) - 1 :
           (a \o b)[i] = IF i < k THEN s[i] ELSE s[i + 1]
  <2>1. a \o b \in Seq(S) /\ Len(a \o b) = Len(s) - 1
    BY <1>1, <1>2, <1>3
  <2>2. ASSUME NEW i \in 1 .. Len(s) - 1
        PROVE  (a \o b)[i] = IF i < k THEN s[i] ELSE s[i + 1]
    <3>1. CASE i < k
      BY <1>1, <1>2, <1>3, <3>1
    <3>2. CASE ~(i < k)
      <4>0. i \in 1 .. Len(a) + Len(b) /\ ~(i <= Len(a))
        BY <1>1, <1>2, <1>3, <3>2
      <4>1. (a \o b)[i] = b[i - Len(a)]
        BY <1>2, <1>3, <4>0, ConcatProperties
      <4>2. i - Len(a) \in 1 .. Len(s) - k /\ k + (i - Len(a)) = i + 1
        BY <1>1, <1>2, <3>2
      <4> QED BY <4>1, <4>2, <1>3, <3>2
    <3> QED BY <3>1, <3>2
  <2> QED BY <2>1, <2>2
<1> QED BY <1>4 DEF RemoveAt, a, b

-----------------------------------------------------------------------------
(* Types of the records *)

LEMMA NewJobType ==
  ASSUME NEW bg \in BOOLEAN
  PROVE  jobs_new_job(bg) \in job_t
BY JobTableAssumption DEF jobs_new_job, job_t, ProcessStates, JobStates

LEMMA InitTableType ==
  /\ init_shell_jobs \in shell_jobs_t
  /\ Listed(init_shell_jobs) = {}
  /\ NoDuplicates(init_shell_jobs)
<1>1. init_shell_jobs \in shell_jobs_t
  <2>1. [j \in Jobs |-> jobs_new_job(FALSE)] \in [Jobs -> job_t]
    BY NewJobType
  <2>2. 0 \in 0 .. MaxSize /\ <<>> \in Seq(Jobs)
    BY JobTableAssumption
  <2> QED BY <2>1, <2>2 DEF init_shell_jobs, shell_jobs_t
<1>2. Listed(init_shell_jobs) = {} /\ NoDuplicates(init_shell_jobs)
  BY DEF init_shell_jobs, Listed, ToSet, NoDuplicates
<1> QED BY <1>1, <1>2

LEMMA ListedType ==
  ASSUME NEW t \in shell_jobs_t
  PROVE  /\ Listed(t) \in SUBSET Jobs
         /\ t.jobs \in Seq(Jobs)
         /\ \A j \in Jobs : t.at[j] \in job_t
         /\ \A k \in DOMAIN t.jobs : t.jobs[k] \in Listed(t)
<1>1. t.jobs \in Seq(Jobs) /\ \A j \in Jobs : t.at[j] \in job_t
  BY DEF shell_jobs_t
<1> QED BY <1>1 DEF Listed, ToSet

(* What an operation on one listed job does at most: the list stays, and   *)
(* the other entries.                                                      *)
InPlace(t, u, j) ==
  /\ u \in shell_jobs_t
  /\ u.jobs = t.jobs
  /\ \A i \in Jobs \ {j} : u.at[i] = t.at[i]

LEMMA InPlaceListed ==
  ASSUME NEW t, NEW u, NEW j, InPlace(t, u, j)
  PROVE  Listed(u) = Listed(t) /\ (NoDuplicates(t) => NoDuplicates(u))
BY DEF InPlace, Listed, ToSet, NoDuplicates

-----------------------------------------------------------------------------
(* Searches *)

LEMMA LastOfFacts ==
  ASSUME NEW t \in shell_jobs_t, NEW S \in SUBSET (DOMAIN t.jobs)
  PROVE  /\ S = {} => LastOf(t, S) = NoJob
         /\ S # {} => \E k \in S : LastOf(t, S) = t.jobs[k]
<1>1. CASE S = {}
  BY <1>1 DEF LastOf
<1>2. CASE S # {}
  <2>1. Len(t.jobs) \in Nat /\ S \in SUBSET (1 .. Len(t.jobs))
    BY DEF shell_jobs_t
  <2>2. Max(S) \in S
    BY <1>2, <2>1, MaxInSet
  <2> QED BY <1>2, <2>2 DEF LastOf
<1> QED BY <1>1, <1>2

LEMMA FindProcessFacts ==
  ASSUME NEW t \in shell_jobs_t, NEW p \in Pids,
         jobs_find_process_by_pid(t, p) # NoJob
  PROVE  /\ jobs_find_process_by_pid(t, p) \in Listed(t)
         /\ t.at[jobs_find_process_by_pid(t, p)].process[p] # "absent"
<1> DEFINE S == {k \in DOMAIN t.jobs : t.at[t.jobs[k]].process[p] # "absent"}
<1>1. S \in SUBSET (DOMAIN t.jobs)
  OBVIOUS
<1>2. jobs_find_process_by_pid(t, p) = LastOf(t, S)
  BY DEF jobs_find_process_by_pid
<1>3. \A k \in S : t.jobs[k] \in Listed(t) /\ t.at[t.jobs[k]].process[p] # "absent"
  BY ListedType
<1> HIDE DEF S
<1> QED BY <1>1, <1>2, <1>3, LastOfFacts

LEMMA FindFgFacts ==
  ASSUME NEW t \in shell_jobs_t, NEW id, find_target_job_fg(t, id) # NoJob
  PROVE  /\ find_target_job_fg(t, id) \in Listed(t)
         /\ \/ t.at[find_target_job_fg(t, id)].state = "stopped"
            \/ /\ t.at[find_target_job_fg(t, id)].is_background
               /\ t.at[find_target_job_fg(t, id)].state = "running"
<1> DEFINE Good(j) == \/ t.at[j].state = "stopped"
                      \/ t.at[j].is_background /\ t.at[j].state = "running"
           S == {k \in DOMAIN t.jobs : HasId(t, k, id) /\ Good(t.jobs[k])}
<1>1. S \in SUBSET (DOMAIN t.jobs)
  OBVIOUS
<1>2. find_target_job_fg(t, id) = LastOf(t, S)
  BY DEF find_target_job_fg
<1>3. \A k \in S : t.jobs[k] \in Listed(t) /\ Good(t.jobs[k])
  BY ListedType
<1> HIDE DEF S
<1>4. find_target_job_fg(t, id) \in Listed(t) /\ Good(find_target_job_fg(t, id))
  <2> HIDE DEF Good
  <2> QED BY <1>1, <1>2, <1>3, LastOfFacts
<1> QED BY <1>4

LEMMA FindBgFacts ==
  ASSUME NEW t \in shell_jobs_t, NEW id, find_target_job_bg(t, id) # NoJob
  PROVE  /\ find_target_job_bg(t, id) \in Listed(t)
         /\ t.at[find_target_job_bg(t, id)].state = "stopped"
<1> DEFINE S == {k \in DOMAIN t.jobs :
                   HasId(t, k, id) /\ t.at[t.jobs[k]].state = "stopped"}
<1>1. S \in SUBSET (DOMAIN t.jobs)
  OBVIOUS
<1>2. find_target_job_bg(t, id) = LastOf(t, S)
  BY DEF find_target_job_bg
<1>3. \A k \in S : t.jobs[k] \in Listed(t) /\ t.at[t.jobs[k]].state = "stopped"
  BY ListedType
<1> HIDE DEF S
<1> QED BY <1>1, <1>2, <1>3, LastOfFacts

-----------------------------------------------------------------------------
(* Adding and removing *)

LEMMA NewIdType ==
  ASSUME NEW t \in shell_jobs_t
  PROVE  NewId(t) \in Nat
<1> DEFINE gaps == {k \in DOMAIN t.jobs : t.at[t.jobs[k]].id >= k + 1}
<1>1. Len(t.jobs) \in Nat /\ gaps \in SUBSET Nat
  BY DEF shell_jobs_t
<1>2. gaps # {} => Min(gaps) \in Nat
  BY <1>1, MinInSet
<1>3. NewId(t) = IF gaps = {} THEN Len(t.jobs) + 1 ELSE Min(gaps)
  BY DEF NewId
<1> HIDE DEF gaps
<1> QED BY <1>1, <1>2, <1>3

LEMMA AddJobFacts ==
  ASSUME NEW t \in shell_jobs_t, NEW j \in Jobs, NEW bg \in BOOLEAN
  PROVE  LET u == jobs_add_job(t, j, bg)
         IN  /\ u \in shell_jobs_t
             /\ Listed(u) = Listed(t) \cup {j}
             /\ j \notin Listed(t) /\ NoDuplicates(t) => NoDuplicates(u)
             /\ u.at[j].pgid = NoPid
             /\ u.at[j].is_background = bg
             /\ u.at[j].state = "running"
             /\ u.at[j].process = [p \in Pids |-> "absent"]
             /\ \A i \in Jobs \ {j} : u.at[i] = t.at[i]
<1> DEFINE u == jobs_add_job(t, j, bg)
           new == [jobs_new_job(bg) EXCEPT !.id = NewId(t)]
<1>1. /\ u.jobs = Append(t.jobs, j)
      /\ u.at = [t.at EXCEPT ![j] = new]
      /\ u.running_jobs_count = Plus(t.running_jobs_count, 1, MaxSize)
  BY DEF jobs_add_job
<1>2. /\ new \in job_t
      /\ new.pgid = NoPid
      /\ new.is_background = bg
      /\ new.state = "running"
      /\ new.process = [p \in Pids |-> "absent"]
  BY NewJobType, NewIdType DEF jobs_new_job, job_t
<1>3. t.jobs \in Seq(Jobs) /\ t.at \in [Jobs -> job_t]
  BY DEF shell_jobs_t
<1> HIDE DEF new
<1>4. u \in shell_jobs_t
  <2>1. Plus(t.running_jobs_count, 1, MaxSize) \in 0 .. MaxSize
    BY PlusType, JobTableAssumption DEF shell_jobs_t
  <2>2. Append(t.jobs, j) \in Seq(Jobs) /\ [t.at EXCEPT ![j] = new] \in [Jobs -> job_t]
    BY <1>2, <1>3
  <2> QED BY <2>1, <2>2 DEF jobs_add_job, shell_jobs_t, new
<1>5. Listed(u) = Listed(t) \cup {j}
  BY <1>1, <1>3, AppendProperties DEF Listed, ToSet
<1>6. ASSUME j \notin Listed(t), NoDuplicates(t) PROVE NoDuplicates(u)
  BY <1>1, <1>3, <1>6, AppendProperties DEF Listed, ToSet, NoDuplicates
<1>7. u.at[j] = new /\ \A i \in Jobs \ {j} : u.at[i] = t.at[i]
  BY <1>1, <1>3
<1> QED BY <1>2, <1>4, <1>5, <1>6, <1>7

(* Removing a position removes its job from the list, and only that one.   *)
LEMMA RemovePosition ==
  ASSUME NEW S, NEW s \in Seq(S), NEW k \in DOMAIN s,
         \A x, y \in DOMAIN s : s[x] = s[y] => x = y
  PROVE  LET r == RemoveAt(s, k)
         IN  /\ r \in Seq(S)
             /\ \A x, y \in DOMAIN r : r[x] = r[y] => x = y
             /\ ToSet(r) = ToSet(s) \ {s[k]}
<1> DEFINE r == RemoveAt(s, k)
<1>1. /\ r \in Seq(S)
      /\ Len(r) = Len(s) - 1
      /\ \A i \in 1 .. Len(s) - 1 : r[i] = IF i < k THEN s[i] ELSE s[i + 1]
  BY RemoveAtFacts
<1> HIDE DEF r
<1>2. k \in 1 .. Len(s) /\ Len(s) \in Nat
  OBVIOUS
<1>3. DOMAIN r = 1 .. Len(s) - 1 /\ DOMAIN s = 1 .. Len(s)
  BY <1>1
<1> DEFINE old(i) == IF i < k THEN i ELSE i + 1
<1>4. ASSUME NEW i \in DOMAIN r
      PROVE  old(i) \in DOMAIN s /\ old(i) # k /\ r[i] = s[old(i)]
  <2>1. i \in Nat /\ i \in 1 .. Len(s) - 1
    BY <1>2, <1>3
  <2>2. CASE i < k
    BY <1>1, <1>2, <1>3, <2>1, <2>2
  <2>3. CASE ~(i < k)
    BY <1>1, <1>2, <1>3, <2>1, <2>3
  <2> QED BY <2>2, <2>3
<1>5. ASSUME NEW i \in DOMAIN s, i # k
      PROVE  \E l \in DOMAIN r : r[l] = s[i]
  <2>1. CASE i < k
    <3>1. i \in 1 .. Len(s) - 1
      BY <1>2, <1>3, <2>1
    <3> QED BY <1>1, <1>3, <2>1, <3>1
  <2>2. CASE i > k
    <3>1. i - 1 \in 1 .. Len(s) - 1 /\ ~(i - 1 < k) /\ (i - 1) + 1 = i
      BY <1>2, <1>3, <2>2
    <3>2. r[i - 1] = s[i]
      BY <1>1, <3>1
    <3> QED BY <1>3, <3>1, <3>2
  <2> QED BY <1>2, <1>3, <1>5, <2>1, <2>2
<1>6. ASSUME NEW x \in DOMAIN r, NEW y \in DOMAIN r, old(x) = old(y)
      PROVE  x = y
  BY <1>2, <1>3, <1>6
<1> HIDE DEF old
<1>7. \A x, y \in DOMAIN r : r[x] = r[y] => x = y
  BY <1>4, <1>6
<1>8. ToSet(r) = ToSet(s) \ {s[k]}
  <2>1. ASSUME NEW i \in DOMAIN r PROVE r[i] \in ToSet(s) \ {s[k]}
    BY <1>4 DEF ToSet
  <2>2. ASSUME NEW i \in DOMAIN s, s[i] # s[k] PROVE s[i] \in ToSet(r)
    BY <1>5, <2>2 DEF ToSet
  <2> QED BY <2>1, <2>2 DEF ToSet
<1> QED BY <1>1, <1>7, <1>8 DEF r

(* jobs_remove_job removes one entry, and that one has the given pgid.     *)
LEMMA RemoveJobFacts ==
  ASSUME NEW t \in shell_jobs_t, NEW pgid, NoDuplicates(t)
  PROVE  LET u == jobs_remove_job(t, pgid)
         IN  /\ u \in shell_jobs_t
             /\ NoDuplicates(u)
             /\ \/ /\ u = t
                   /\ \A j \in Listed(t) : t.at[j].pgid # pgid
                \/ \E j \in Listed(t) :
                     /\ t.at[j].pgid = pgid
                     /\ Listed(u) = Listed(t) \ {j}
                     /\ u.at[j] = jobs_new_job(FALSE)
                     /\ \A i \in Jobs \ {j} : u.at[i] = t.at[i]
<1> DEFINE u == jobs_remove_job(t, pgid)
<1>0. t.jobs \in Seq(Jobs) /\ t.at \in [Jobs -> job_t] /\ Len(t.jobs) \in Nat
  BY DEF shell_jobs_t
<1>1. CASE PgidAt(t, pgid) = {}
  <2>1. u = t
    BY <1>1 DEF jobs_remove_job
  <2>2. \A j \in Listed(t) : t.at[j].pgid # pgid
    BY <1>1 DEF PgidAt, Listed, ToSet
  <2> QED BY <2>1, <2>2
<1>2. CASE PgidAt(t, pgid) # {}
  <2>1. Max(PgidAt(t, pgid)) \in PgidAt(t, pgid)
    <3>1. PgidAt(t, pgid) \in SUBSET (1 .. Len(t.jobs))
      BY <1>0 DEF PgidAt
    <3> QED BY <1>0, <1>2, <3>1, MaxInSet
  <2>2. PICK k : k = Max(PgidAt(t, pgid)) /\ k \in PgidAt(t, pgid)
    BY <2>1
  <2>3. PICK j : j = t.jobs[k]
    OBVIOUS
  <2>4. k \in DOMAIN t.jobs /\ t.at[j].pgid = pgid
    BY <2>2, <2>3 DEF PgidAt
  <2>5. j \in Jobs /\ j \in Listed(t)
    BY <1>0, <2>3, <2>4 DEF Listed, ToSet
  <2>6. /\ u.jobs = RemoveAt(t.jobs, k)
        /\ u.at = [t.at EXCEPT ![j] = jobs_new_job(FALSE)]
        /\ u = [jobs |-> u.jobs, at |-> u.at,
                running_jobs_count |-> u.running_jobs_count]
        /\ u.running_jobs_count \in {Minus(t.running_jobs_count, MaxSize),
                                     t.running_jobs_count}
    BY <1>2, <2>2, <2>3 DEF jobs_remove_job
  <2> HIDE DEF u
  <2>7. /\ u.jobs \in Seq(Jobs)
        /\ NoDuplicates(u)
        /\ Listed(u) = Listed(t) \ {j}
    BY <1>0, <2>3, <2>4, <2>6, RemovePosition DEF NoDuplicates, Listed
  <2>8. u \in shell_jobs_t
    <3>1. u.running_jobs_count \in 0 .. MaxSize
      BY <2>6, MinusType, JobTableAssumption DEF shell_jobs_t
    <3>2. u.at \in [Jobs -> job_t]
      BY <1>0, <2>5, <2>6, NewJobType
    <3> QED BY <2>6, <2>7, <3>1, <3>2 DEF shell_jobs_t
  <2>9. u.at[j] = jobs_new_job(FALSE) /\ \A i \in Jobs \ {j} : u.at[i] = t.at[i]
    BY <1>0, <2>5, <2>6
  <2> QED BY <2>4, <2>5, <2>7, <2>8, <2>9 DEF u
<1> QED BY <1>1, <1>2

-----------------------------------------------------------------------------
(* Changes of one entry *)

(* The entry keeps its group and its processes, whatever their states are. *)
SameGroup(t, u, j) ==
  /\ InPlace(t, u, j)
  /\ u.at[j].pgid = t.at[j].pgid
  /\ \A p \in Pids :
       u.at[j].process[p] = "absent" <=> t.at[j].process[p] = "absent"

LEMMA JobType ==
  ASSUME NEW job \in job_t
  PROVE  /\ job.process \in [Pids -> ProcessStates]
         /\ job.live_processes \in 0 .. MaxUnsigned
         /\ job.pgid \in Pids \cup {NoPid}
         /\ job.is_background \in BOOLEAN
         /\ job.state \in JobStates
BY DEF job_t

LEMMA ProcessesInType ==
  ASSUME NEW job, NEW state
  PROVE  Cardinality(ProcessesIn(job, state)) \in Nat
<1>1. ProcessesIn(job, state) \subseteq Pids
  BY DEF ProcessesIn
<1> QED BY <1>1, ProcessIdsAssumption, FS_Subset, FS_CardinalityType

LEMMA StoreFacts ==
  ASSUME NEW t \in shell_jobs_t, NEW j \in Jobs, NEW job \in job_t,
         NEW n \in 0 .. MaxSize
  PROVE  InPlace(t, Store(t, j, job, n), j) /\ Store(t, j, job, n).at[j] = job
BY DEF shell_jobs_t, InPlace, Store

LEMMA TableType ==
  ASSUME NEW t \in shell_jobs_t
  PROVE  /\ \A j \in Jobs : t.at[j] \in job_t
         /\ t.running_jobs_count \in 0 .. MaxSize
         /\ t.jobs \in Seq(Jobs)
BY DEF shell_jobs_t

LEMMA AddChildFacts ==
  ASSUME NEW t \in shell_jobs_t, NEW j \in Jobs, NEW p \in Pids, NEW pgid \in Pids
  PROVE  LET u == add_child(t, j, p, pgid)
         IN  /\ InPlace(t, u, j)
             /\ u.at[j].pgid = pgid
             /\ u.at[j].is_background = t.at[j].is_background
             /\ u.at[j].state = t.at[j].state
             /\ \A q \in Pids \ {p} : u.at[j].process[q] = t.at[j].process[q]
<1> DEFINE job == t.at[j]
           new == [job EXCEPT !.process[p] = "running",
                              !.pgid = pgid,
                              !.live_processes = Plus(@, 1, MaxUnsigned)]
<1>1. job \in job_t /\ t.running_jobs_count \in 0 .. MaxSize
  BY TableType
<1>2. Plus(job.live_processes, 1, MaxUnsigned) \in 0 .. MaxUnsigned
  BY <1>1, PlusType, JobTableAssumption DEF job_t
<1>3. /\ new \in job_t
      /\ new.pgid = pgid
      /\ new.is_background = job.is_background
      /\ new.state = job.state
      /\ \A q \in Pids \ {p} : new.process[q] = job.process[q]
  BY <1>1, <1>2 DEF job_t, ProcessStates
<1>4. add_child(t, j, p, pgid) = Store(t, j, new, t.running_jobs_count)
  BY DEF add_child
<1> HIDE DEF new
<1>5. /\ InPlace(t, add_child(t, j, p, pgid), j)
      /\ add_child(t, j, p, pgid).at[j] = new
  BY <1>1, <1>3, <1>4, StoreFacts
<1> QED BY <1>3, <1>5

LEMMA StoreSameGroup ==
  ASSUME NEW t \in shell_jobs_t, NEW j \in Jobs, NEW job \in job_t,
         NEW n \in 0 .. MaxSize,
         job.pgid = t.at[j].pgid,
         \A p \in Pids : job.process[p] = "absent" <=> t.at[j].process[p] = "absent"
  PROVE  /\ SameGroup(t, Store(t, j, job, n), j)
         /\ Store(t, j, job, n).at[j] = job
BY StoreFacts DEF SameGroup

LEMMA SameGroupTrans ==
  ASSUME NEW t, NEW u, NEW v, NEW j, SameGroup(t, u, j), SameGroup(u, v, j)
  PROVE  SameGroup(t, v, j)
BY DEF SameGroup, InPlace

LEMMA AllMovedFacts ==
  ASSUME NEW job \in job_t,
         NEW from \in ProcessStates \ {"absent"}, NEW to \in ProcessStates \ {"absent"}
  PROVE  /\ AllMoved(job, from, to) \in [Pids -> ProcessStates]
         /\ \A p \in Pids : AllMoved(job, from, to)[p] = "absent"
                              <=> job.process[p] = "absent"
BY JobType DEF AllMoved

LEMMA NoteExitedFacts ==
  ASSUME NEW t \in shell_jobs_t, NEW j \in Jobs, NEW p \in Pids,
         t.at[j].process[p] # "absent"
  PROVE  LET u == note_exited(t, j, p)
         IN  /\ SameGroup(t, u, j)
             /\ u.at[j].is_background = t.at[j].is_background
             /\ u.at[j].state = t.at[j].state
<1> DEFINE job == t.at[j]
           new == [job EXCEPT !.process[p] = "done",
                              !.live_processes = Minus(@, MaxUnsigned)]
<1>1. job \in job_t /\ t.running_jobs_count \in 0 .. MaxSize
  BY TableType
<1>2. Minus(job.live_processes, MaxUnsigned) \in 0 .. MaxUnsigned
  BY <1>1, MinusType, JobTableAssumption DEF job_t
<1>3. /\ new \in job_t
      /\ new.pgid = job.pgid
      /\ new.is_background = job.is_background
      /\ new.state = job.state
      /\ \A q \in Pids : new.process[q] = "absent" <=> job.process[q] = "absent"
  BY <1>1, <1>2 DEF job_t, ProcessStates
<1>4. note_exited(t, j, p) = Store(t, j, new, t.running_jobs_count)
  BY DEF note_exited
<1> HIDE DEF new
<1>5. SameGroup(t, note_exited(t, j, p), j) /\ note_exited(t, j, p).at[j] = new
  BY <1>1, <1>3, <1>4, StoreSameGroup
<1> QED BY <1>3, <1>5

LEMMA NoteContinuedFacts ==
  ASSUME NEW t \in shell_jobs_t, NEW j \in Jobs, NEW p \in Pids,
         t.at[j].process[p] # "absent"
  PROVE  LET u == note_continued(t, j, p)
         IN  /\ SameGroup(t, u, j)
             /\ u.at[j].is_background = t.at[j].is_background
             /\ u.at[j].state = t.at[j].state
<1> DEFINE job == t.at[j]
           new == [job EXCEPT !.process[p] = "running"]
<1>1. job \in job_t /\ t.running_jobs_count \in 0 .. MaxSize
  BY TableType
<1>2. /\ new \in job_t
      /\ new.pgid = job.pgid
      /\ new.is_background = job.is_background
      /\ new.state = job.state
      /\ \A q \in Pids : new.process[q] = "absent" <=> job.process[q] = "absent"
  BY <1>1 DEF job_t, ProcessStates
<1>3. note_continued(t, j, p) = Store(t, j, new, t.running_jobs_count)
  BY DEF note_continued
<1> HIDE DEF new
<1>4. SameGroup(t, note_continued(t, j, p), j) /\ note_continued(t, j, p).at[j] = new
  BY <1>1, <1>2, <1>3, StoreSameGroup
<1> QED BY <1>2, <1>4

LEMMA MarkStoppedFacts ==
  ASSUME NEW t \in shell_jobs_t, NEW j \in Jobs
  PROVE  LET u == jobs_mark_job_stopped(t, j)
         IN  SameGroup(t, u, j) /\ u.at[j].is_background = t.at[j].is_background
<1> DEFINE job == t.at[j]
           new == [job EXCEPT !.process = AllMoved(job, "running", "stopped"),
                              !.state = "stopped"]
           n == Minus(t.running_jobs_count, MaxSize)
<1>1. job \in job_t /\ t.running_jobs_count \in 0 .. MaxSize
  BY TableType
<1>2. n \in 0 .. MaxSize
  BY <1>1, MinusType, JobTableAssumption
<1>3. /\ AllMoved(job, "running", "stopped") \in [Pids -> ProcessStates]
      /\ \A q \in Pids : AllMoved(job, "running", "stopped")[q] = "absent"
                           <=> job.process[q] = "absent"
  BY <1>1, AllMovedFacts DEF ProcessStates
<1>4. /\ new \in job_t
      /\ new.pgid = job.pgid
      /\ new.is_background = job.is_background
      /\ \A q \in Pids : new.process[q] = "absent" <=> job.process[q] = "absent"
  BY <1>1, <1>3 DEF job_t, JobStates
<1>5. jobs_mark_job_stopped(t, j) = Store(t, j, new, n)
  BY DEF jobs_mark_job_stopped
<1> HIDE DEF new, n
<1>6. /\ SameGroup(t, jobs_mark_job_stopped(t, j), j)
      /\ jobs_mark_job_stopped(t, j).at[j] = new
  BY <1>1, <1>2, <1>4, <1>5, StoreSameGroup
<1> QED BY <1>4, <1>6

LEMMA NoteStoppedFacts ==
  ASSUME NEW t \in shell_jobs_t, NEW j \in Jobs, NEW p \in Pids,
         t.at[j].process[p] # "absent"
  PROVE  LET u == note_stopped(t, j, p)
         IN  /\ SameGroup(t, u, j)
             /\ u.at[j].is_background = t.at[j].is_background
             /\ u.at[j].live_processes = 0
<1> DEFINE one == [t.at[j] EXCEPT !.process[p] = "stopped"]
           t1 == Store(t, j, one, t.running_jobs_count)
           s == jobs_mark_job_stopped(t1, j)
           new == [s.at[j] EXCEPT !.live_processes = 0]
<1>1. t.at[j] \in job_t /\ t.running_jobs_count \in 0 .. MaxSize
  BY TableType
<1>2. /\ one \in job_t
      /\ one.pgid = t.at[j].pgid
      /\ one.is_background = t.at[j].is_background
      /\ \A q \in Pids : one.process[q] = "absent" <=> t.at[j].process[q] = "absent"
  BY <1>1 DEF job_t, ProcessStates
<1>3. /\ SameGroup(t, t1, j)
      /\ t1.at[j].is_background = t.at[j].is_background
      /\ t1 \in shell_jobs_t
  <2> HIDE DEF one
  <2>1. SameGroup(t, t1, j) /\ t1.at[j] = one
    BY <1>1, <1>2, StoreSameGroup
  <2> QED BY <1>2, <2>1 DEF SameGroup, InPlace
<1> HIDE DEF one, t1
<1>4. /\ SameGroup(t1, s, j)
      /\ s.at[j].is_background = t1.at[j].is_background
      /\ s \in shell_jobs_t
  BY <1>3, MarkStoppedFacts DEF SameGroup, InPlace
<1>5. note_stopped(t, j, p) = Store(s, j, new, s.running_jobs_count)
  BY DEF note_stopped, one, t1
<1> HIDE DEF s
<1>6. s.at[j] \in job_t /\ s.running_jobs_count \in 0 .. MaxSize
  BY <1>4, TableType
<1>7. /\ new \in job_t
      /\ new.pgid = s.at[j].pgid
      /\ new.is_background = s.at[j].is_background
      /\ new.process = s.at[j].process
      /\ new.live_processes = 0
  BY <1>6, JobTableAssumption DEF job_t
<1> HIDE DEF new
<1>8. SameGroup(s, note_stopped(t, j, p), j) /\ note_stopped(t, j, p).at[j] = new
  BY <1>4, <1>5, <1>6, <1>7, StoreSameGroup
<1>9. SameGroup(t, note_stopped(t, j, p), j)
  BY <1>3, <1>4, <1>8, SameGroupTrans
<1> QED BY <1>3, <1>4, <1>7, <1>8, <1>9

LEMMA NoteProcessFacts ==
  ASSUME NEW t \in shell_jobs_t, NEW j \in Jobs, NEW p \in Pids,
         t.at[j].process[p] # "absent",
         NEW what \in {"exited", "stopped", "continued"}
  PROVE  LET u == note_process(t, j, p, what)
         IN  /\ SameGroup(t, u, j)
             /\ u.at[j].is_background = t.at[j].is_background
             /\ u.at[j].state = t.at[j].state \/ u.at[j].live_processes = 0
<1>1. CASE what = "exited"
  BY <1>1, NoteExitedFacts DEF note_process
<1>2. CASE what = "stopped"
  BY <1>2, NoteStoppedFacts DEF note_process
<1>3. CASE what = "continued"
  BY <1>3, NoteContinuedFacts DEF note_process
<1> QED BY <1>1, <1>2, <1>3

(* No two entries have the same process group.                             *)
DistinctGroups(t) ==
  \A i, j \in Listed(t) : t.at[i].pgid = t.at[j].pgid => i = j

(* A job is found again by its process group, so that the entry removed is *)
(* the job itself.                                                         *)
LEMMA RemoveJobByGroup ==
  ASSUME NEW t \in shell_jobs_t, NoDuplicates(t), DistinctGroups(t),
         NEW j \in Listed(t)
  PROVE  LET u == jobs_remove_job(t, t.at[j].pgid)
         IN  /\ u \in shell_jobs_t
             /\ NoDuplicates(u)
             /\ Listed(u) = Listed(t) \ {j}
             /\ \A i \in Jobs \ {j} : u.at[i] = t.at[i]
<1>0. PICK pgid : pgid = t.at[j].pgid
  OBVIOUS
<1> DEFINE u == jobs_remove_job(t, pgid)
<1>1. /\ u \in shell_jobs_t
      /\ NoDuplicates(u)
      /\ \/ \A i \in Listed(t) : t.at[i].pgid # pgid
         \/ \E i \in Listed(t) : /\ t.at[i].pgid = pgid
                                 /\ Listed(u) = Listed(t) \ {i}
                                 /\ \A k \in Jobs \ {i} : u.at[k] = t.at[k]
  <2> HIDE DEF u
  <2>1. /\ u \in shell_jobs_t
        /\ NoDuplicates(u)
        /\ \/ u = t /\ \A i \in Listed(t) : t.at[i].pgid # pgid
           \/ \E i \in Listed(t) : /\ t.at[i].pgid = pgid
                                   /\ Listed(u) = Listed(t) \ {i}
                                   /\ u.at[i] = jobs_new_job(FALSE)
                                   /\ \A k \in Jobs \ {i} : u.at[k] = t.at[k]
    BY RemoveJobFacts, ZenonT(60) DEF u
  <2> QED BY <2>1
<1> HIDE DEF u
<1>2. PICK i \in Listed(t) : /\ t.at[i].pgid = pgid
                             /\ Listed(u) = Listed(t) \ {i}
                             /\ \A k \in Jobs \ {i} : u.at[k] = t.at[k]
  BY <1>0, <1>1
<1>3. i = j
  BY <1>0, <1>2 DEF DistinctGroups
<1> QED BY <1>0, <1>1, <1>2, <1>3 DEF u

LEMMA CompletedFacts ==
  ASSUME NEW t \in shell_jobs_t, NoDuplicates(t), DistinctGroups(t),
         NEW j \in Listed(t)
  PROVE  LET u == jobs_mark_job_completed(t, j)
         IN  /\ u \in shell_jobs_t
             /\ NoDuplicates(u)
             /\ Listed(u) = Listed(t) \ {j}
             /\ \A i \in Jobs \ {j} : u.at[i] = t.at[i]
<1> DEFINE new == [t.at[j] EXCEPT !.state = "done"]
           d == Store(t, j, new, t.running_jobs_count)
<1>1. j \in Jobs /\ t.at[j] \in job_t /\ t.running_jobs_count \in 0 .. MaxSize
  BY ListedType, TableType
<1>2. new \in job_t /\ new.pgid = t.at[j].pgid
  BY <1>1 DEF job_t, JobStates
<1>3. InPlace(t, d, j) /\ d.at[j] = new
  <2> HIDE DEF new
  <2> QED BY <1>1, <1>2, StoreFacts
<1>4. jobs_mark_job_completed(t, j) = jobs_remove_job(d, d.at[j].pgid)
  BY <1>2, <1>3 DEF jobs_mark_job_completed
<1> HIDE DEF new, d
<1>5. Listed(d) = Listed(t) /\ NoDuplicates(d)
  BY <1>3, InPlaceListed
<1>6. \A i \in Listed(d) : d.at[i].pgid = t.at[i].pgid
  BY <1>2, <1>3, <1>5, ListedType DEF InPlace
<1>7. DistinctGroups(d) /\ d \in shell_jobs_t /\ j \in Listed(d)
  BY <1>3, <1>5, <1>6 DEF DistinctGroups, InPlace
<1> DEFINE u == jobs_remove_job(d, d.at[j].pgid)
<1>8. /\ u \in shell_jobs_t
      /\ NoDuplicates(u)
      /\ Listed(u) = Listed(d) \ {j}
      /\ \A i \in Jobs \ {j} : u.at[i] = d.at[i]
  BY <1>5, <1>7, RemoveJobByGroup
<1> QED BY <1>3, <1>4, <1>5, <1>8 DEF InPlace

(* A report about a process of job j changes j only; it removes j only if  *)
(* j runs in the background, and never leaves a stopped background job.    *)
LEMMA HandleReportFacts ==
  ASSUME NEW t \in shell_jobs_t, NoDuplicates(t), DistinctGroups(t),
         NEW j \in Listed(t), NEW p \in Pids,
         t.at[j].process[p] # "absent",
         t.at[j].state = "stopped" => ~t.at[j].is_background,
         NEW what \in {"exited", "stopped", "continued"}
  PROVE  LET u == handle_report(t, j, p, what)
         IN  /\ u \in shell_jobs_t
             /\ NoDuplicates(u)
             /\ \A i \in Jobs \ {j} : u.at[i] = t.at[i]
             /\ \/ /\ Listed(u) = Listed(t)
                   /\ SameGroup(t, u, j)
                   /\ u.at[j].is_background = t.at[j].is_background
                   /\ u.at[j].state = "stopped" => ~u.at[j].is_background
                \/ /\ Listed(u) = Listed(t) \ {j}
                   /\ t.at[j].is_background
<1> DEFINE n == note_process(t, j, p, what)
<1>0. j \in Jobs
  BY ListedType
<1>1. /\ SameGroup(t, n, j)
      /\ n.at[j].is_background = t.at[j].is_background
      /\ n.at[j].state = t.at[j].state \/ n.at[j].live_processes = 0
  BY <1>0, NoteProcessFacts
<1>2. handle_report(t, j, p, what)
        = IF n.at[j].live_processes = 0 /\ n.at[j].is_background
          THEN jobs_mark_job_completed(n, j) ELSE n
  BY DEF handle_report
<1> HIDE DEF n
<1>3. /\ n \in shell_jobs_t
      /\ Listed(n) = Listed(t)
      /\ NoDuplicates(n)
      /\ \A i \in Jobs \ {j} : n.at[i] = t.at[i]
  BY <1>1, InPlaceListed DEF SameGroup, InPlace
<1>4. CASE n.at[j].live_processes = 0 /\ n.at[j].is_background
  <2>1. \A i \in Listed(n) : n.at[i].pgid = t.at[i].pgid
    BY <1>0, <1>1, <1>3, ListedType DEF SameGroup
  <2>2. DistinctGroups(n)
    BY <1>3, <2>1 DEF DistinctGroups
  <2>3. LET u == jobs_mark_job_completed(n, j)
        IN  /\ u \in shell_jobs_t
            /\ NoDuplicates(u)
            /\ Listed(u) = Listed(n) \ {j}
            /\ \A i \in Jobs \ {j} : u.at[i] = n.at[i]
    BY <1>3, <2>2, CompletedFacts
  <2> QED BY <1>1, <1>2, <1>3, <1>4, <2>3
<1>5. CASE ~(n.at[j].live_processes = 0 /\ n.at[j].is_background)
  <2>1. n.at[j].state = "stopped" => ~n.at[j].is_background
    BY <1>1, <1>5
  <2> QED BY <1>1, <1>2, <1>3, <1>5, <2>1
<1> QED BY <1>4, <1>5

LEMMA MarkContinuedFacts ==
  ASSUME NEW t \in shell_jobs_t, NEW j \in Jobs
  PROVE  SameGroup(t, jobs_mark_job_continued(t, j), j)
<1> DEFINE job == t.at[j]
           live == Plus(job.live_processes, Cardinality(ProcessesIn(job, "stopped")),
                        MaxUnsigned)
           moved == AllMoved(job, "stopped", "running")
           new == Continued(job, live)
<1>1. job \in job_t /\ t.running_jobs_count \in 0 .. MaxSize
  BY TableType
<1>2. live \in 0 .. MaxUnsigned
  BY <1>1, PlusType, ProcessesInType, JobTableAssumption DEF job_t
<1>3. /\ moved \in [Pids -> ProcessStates]
      /\ \A q \in Pids : moved[q] = "absent" <=> job.process[q] = "absent"
  BY <1>1, AllMovedFacts DEF ProcessStates
<1>4. new = [job EXCEPT !.process = moved, !.live_processes = live,
                        !.state = "continued"]
  BY DEF Continued
<1>5. jobs_mark_job_continued(t, j) = Store(t, j, new, t.running_jobs_count)
  BY DEF jobs_mark_job_continued
<1> HIDE DEF live, moved, new
<1>6. new \in job_t /\ new.pgid = job.pgid /\ new.process = moved
  BY <1>1, <1>2, <1>3, <1>4 DEF job_t, JobStates
<1> QED BY <1>1, <1>3, <1>5, <1>6, StoreSameGroup

LEMMA ResumeJobFacts ==
  ASSUME NEW t \in shell_jobs_t, NEW j \in Jobs, NEW bg \in BOOLEAN
  PROVE  LET u == resume_job(t, j, bg)
         IN  /\ SameGroup(t, u, j)
             /\ u.at[j].is_background = bg
             /\ u.at[j].state = "running"
<1> DEFINE c == jobs_mark_job_continued(t, j)
           new == Resumed(c.at[j], bg)
           n == Plus(c.running_jobs_count, 1, MaxSize)
<1>1. SameGroup(t, c, j) /\ c \in shell_jobs_t
  BY MarkContinuedFacts DEF SameGroup, InPlace
<1>2. resume_job(t, j, bg) = Store(c, j, new, n)
  BY DEF resume_job
<1> HIDE DEF c
<1>3. c.at[j] \in job_t /\ n \in 0 .. MaxSize
  BY <1>1, TableType, PlusType, JobTableAssumption
<1>4. /\ new \in job_t
      /\ new.pgid = c.at[j].pgid
      /\ new.process = c.at[j].process
      /\ new.is_background = bg
      /\ new.state = "running"
  BY <1>3 DEF Resumed, job_t, JobStates
<1> HIDE DEF new, n
<1>5. SameGroup(c, resume_job(t, j, bg), j) /\ resume_job(t, j, bg).at[j] = new
  BY <1>1, <1>2, <1>3, <1>4, StoreSameGroup
<1> QED BY <1>1, <1>4, <1>5, SameGroupTrans

-----------------------------------------------------------------------------
(* What every step may use *)

LEMMA Constants ==
  /\ NoJob \notin Jobs
  /\ NoPid \notin Pids
  /\ Shell \notin Pids \cup {NoPid}
BY JobTableAssumption, ProcessIdsAssumption, KernelAssumption

(* The members of the table are typed, whichever part of TypeOK they are.  *)
LEMMA TypeFacts ==
  ASSUME TypeOK
  PROVE  /\ table \in shell_jobs_t
         /\ Listed(table) \in SUBSET Jobs
         /\ \A j \in Jobs : table.at[j] \in job_t
         /\ \A j \in Jobs : table.at[j].pgid \in Pids \cup {NoPid}
BY ListedType, TableType, JobType DEF TypeOK

(* A group that exists has a process, which names it or is the shell's.    *)
LEMMA ExistingGroup ==
  ASSUME TypeOK, NEW g \in Pids \cup {NoPid}, GroupExists(g)
  PROVE  g \in Pids
BY Constants DEF TypeOK, KernelTypeOK, GroupExists, Members

(* A step that changes no entry, outside the ways into "leave".            *)
LEMMA SameTable ==
  ASSUME EntriesOK, StoppedIsForeground, table' = table, cur' = cur,
         pc' = "leave" => pc = "leave"
  PROVE  EntriesOK' /\ StoppedIsForeground'
BY DEF EntriesOK, StoppedIsForeground, NoDuplicates, GroupsAreDistinct, ProcessesOf

-----------------------------------------------------------------------------
LEMMA InitInv == Init => IInv
<1> SUFFICES ASSUME Init PROVE IInv
  OBVIOUS
<1>1. Listed(table) = {} /\ NoDuplicates(table) /\ table \in shell_jobs_t
  BY InitTableType DEF Init
<1>2. TypeOK
  <2>1. /\ proc \in [Pids -> {"none", "running", "stopped", "zombie"}]
        /\ report \in [Pids -> {"none", "stopped", "continued"}]
        /\ group \in [Pids -> Pids \cup {Shell}]
    BY DEF Init, KernelInit
  <2>2. /\ deaf \in SUBSET Pids
        /\ tstp \in SUBSET Pids
        /\ tty \in Pids \cup {Shell}
        /\ pending \in SUBSET {"CHLD", "INT", "TSTP"}
    BY DEF Init, KernelInit
  <2>3. /\ pc \in PCs
        /\ cur \in Jobs \cup {NoJob}
        /\ left \in Nat
        /\ args \in Seq(Nat)
        /\ wait \in Jobs \cup {NoJob}
    BY DEF Init, PCs
  <2>4. blocked \in BOOLEAN /\ saved \in BOOLEAN /\ warned \in BOOLEAN
    BY DEF Init, KernelInit
  <2> QED BY <1>1, <2>1, <2>2, <2>3, <2>4 DEF TypeOK, KernelTypeOK
<1>3. EntriesOK /\ StoppedIsForeground
  BY <1>1 DEF EntriesOK, GroupsAreDistinct, StoppedIsForeground
<1>4. PlaceOK /\ WaitOK
  BY DEF Init, KernelInit, PlaceOK, AtPrompt, InFg, WaitOK, TerminalFollowsWait,
         WaitedJobStaysListed
<1>5. HeardOK
  BY DEF Init, KernelInit, HeardOK, Blocking, Listening
<1> QED BY <1>2, <1>3, <1>4, <1>5 DEF IInv

-----------------------------------------------------------------------------
LEMMA ForkFailsKeeps ==
  ASSUME IInv, ForkFails
  PROVE  IInv'
<1>1. TypeOK'
  BY DEF IInv, ForkFails, TypeOK, KernelTypeOK, PCs, kernelVars, childVars, shellVars
<1>2. EntriesOK' /\ StoppedIsForeground'
  BY SameTable DEF IInv, ForkFails, kernelVars, shellVars
<1>3. PlaceOK'
  BY DEF IInv, ForkFails, PlaceOK, AtPrompt, InFg, kernelVars, childVars, shellVars
<1>4. WaitOK'
  BY DEF IInv, ForkFails, WaitOK, TerminalFollowsWait, WaitedJobStaysListed, kernelVars, childVars, shellVars
<1>5. HeardOK'
  BY DEF IInv, ForkFails, HeardOK, Blocking, Listening, ProcessesOf, Owed, kernelVars, childVars, shellVars
<1> QED BY <1>1, <1>2, <1>3, <1>4, <1>5 DEF IInv

LEMMA SignalfdFailsKeeps ==
  ASSUME IInv, SignalfdFails
  PROVE  IInv'
<1>1. TypeOK'
  BY DEF IInv, SignalfdFails, TypeOK, KernelTypeOK, PCs, kernelVars, childVars, shellVars
<1>2. EntriesOK' /\ StoppedIsForeground'
  BY SameTable DEF IInv, SignalfdFails, kernelVars, shellVars
<1>3. PlaceOK'
  BY DEF IInv, SignalfdFails, PlaceOK, AtPrompt, InFg, kernelVars, childVars, shellVars
<1>4. WaitOK'
  BY DEF IInv, SignalfdFails, WaitOK, TerminalFollowsWait, WaitedJobStaysListed, kernelVars, childVars, shellVars
<1>5. HeardOK'
  BY DEF IInv, SignalfdFails, HeardOK, Blocking, Listening, ProcessesOf, Owed, kernelVars, childVars, shellVars
<1> QED BY <1>1, <1>2, <1>3, <1>4, <1>5 DEF IInv

LEMMA PollReturnsKeeps ==
  ASSUME IInv, PollReturns
  PROVE  IInv'
<1>1. TypeOK'
  BY DEF IInv, PollReturns, TypeOK, KernelTypeOK, PCs, kernelVars, childVars, shellVars
<1>2. EntriesOK' /\ StoppedIsForeground'
  BY SameTable DEF IInv, PollReturns, kernelVars, shellVars
<1>3. PlaceOK'
  BY DEF IInv, PollReturns, PlaceOK, AtPrompt, InFg, kernelVars, childVars, shellVars
<1>4. WaitOK'
  BY DEF IInv, PollReturns, WaitOK, TerminalFollowsWait, WaitedJobStaysListed, kernelVars, childVars, shellVars
<1>5. HeardOK'
  BY DEF IInv, PollReturns, HeardOK, Blocking, Listening, ProcessesOf, Owed, kernelVars, childVars, shellVars
<1> QED BY <1>1, <1>2, <1>3, <1>4, <1>5 DEF IInv

LEMMA DrainChldKeeps ==
  ASSUME IInv, DrainChld
  PROVE  IInv'
<1>1. TypeOK'
  BY DEF IInv, DrainChld, TypeOK, KernelTypeOK, PCs, kernelVars, childVars, shellVars
<1>2. EntriesOK' /\ StoppedIsForeground'
  BY SameTable DEF IInv, DrainChld, kernelVars, shellVars
<1>3. PlaceOK'
  BY DEF IInv, DrainChld, PlaceOK, AtPrompt, InFg, kernelVars, childVars, shellVars
<1>4. WaitOK'
  BY DEF IInv, DrainChld, WaitOK, TerminalFollowsWait, WaitedJobStaysListed, kernelVars, childVars, shellVars
<1>5. HeardOK'
  BY DEF IInv, DrainChld, HeardOK, Blocking, Listening, ProcessesOf, Owed, kernelVars, childVars, shellVars
<1> QED BY <1>1, <1>2, <1>3, <1>4, <1>5 DEF IInv

LEMMA DrainIntKeeps ==
  ASSUME IInv, DrainInt
  PROVE  IInv'
<1>1. TypeOK'
  BY DEF IInv, DrainInt, TypeOK, KernelTypeOK, PCs, kernelVars, childVars, shellVars
<1>2. EntriesOK' /\ StoppedIsForeground'
  BY SameTable DEF IInv, DrainInt, kernelVars, shellVars
<1>3. PlaceOK'
  BY DEF IInv, DrainInt, PlaceOK, AtPrompt, InFg, kernelVars, childVars, shellVars
<1>4. WaitOK'
  BY DEF IInv, DrainInt, WaitOK, TerminalFollowsWait, WaitedJobStaysListed, kernelVars, childVars, shellVars
<1>5. HeardOK'
  BY DEF IInv, DrainInt, HeardOK, Blocking, Listening, ProcessesOf, Owed, kernelVars, childVars, shellVars
<1> QED BY <1>1, <1>2, <1>3, <1>4, <1>5 DEF IInv

LEMMA DrainTstpKeeps ==
  ASSUME IInv, DrainTstp
  PROVE  IInv'
<1>1. TypeOK'
  BY DEF IInv, DrainTstp, SendTstp, Running, Members, TypeOK, KernelTypeOK, PCs, kernelVars, childVars, shellVars
<1>2. EntriesOK' /\ StoppedIsForeground'
  BY SameTable DEF IInv, DrainTstp, SendTstp, Running, Members, kernelVars, shellVars
<1>3. PlaceOK'
  BY DEF IInv, DrainTstp, SendTstp, Running, Members, PlaceOK, AtPrompt, InFg, kernelVars, childVars, shellVars
<1>4. WaitOK'
  BY DEF IInv, DrainTstp, SendTstp, Running, Members, WaitOK, TerminalFollowsWait, WaitedJobStaysListed, kernelVars, childVars, shellVars
<1>5. HeardOK'
  BY DEF IInv, DrainTstp, SendTstp, Running, Members, HeardOK, Blocking, Listening, ProcessesOf, Owed, kernelVars, childVars, shellVars
<1> QED BY <1>1, <1>2, <1>3, <1>4, <1>5 DEF IInv

LEMMA PollAgainKeeps ==
  ASSUME IInv, PollAgain
  PROVE  IInv'
<1>1. TypeOK'
  BY DEF IInv, PollAgain, TypeOK, KernelTypeOK, PCs, kernelVars, childVars, shellVars
<1>2. EntriesOK' /\ StoppedIsForeground'
  BY SameTable DEF IInv, PollAgain, kernelVars, shellVars
<1>3. PlaceOK'
  BY DEF IInv, PollAgain, PlaceOK, AtPrompt, InFg, kernelVars, childVars, shellVars
<1>4. WaitOK'
  BY DEF IInv, PollAgain, WaitOK, TerminalFollowsWait, WaitedJobStaysListed, kernelVars, childVars, shellVars
<1>5. HeardOK'
  BY DEF IInv, PollAgain, HeardOK, Blocking, Listening, ProcessesOf, Owed, kernelVars, childVars, shellVars
<1> QED BY <1>1, <1>2, <1>3, <1>4, <1>5 DEF IInv

LEMMA EventHookKeeps ==
  ASSUME IInv, EventHook
  PROVE  IInv'
<1>1. TypeOK'
  BY DEF IInv, EventHook, TypeOK, KernelTypeOK, PCs, kernelVars, childVars, shellVars
<1>2. EntriesOK' /\ StoppedIsForeground'
  BY SameTable DEF IInv, EventHook, kernelVars, shellVars
<1>3. PlaceOK'
  BY DEF IInv, EventHook, PlaceOK, AtPrompt, InFg, kernelVars, childVars, shellVars
<1>4. WaitOK'
  BY DEF IInv, EventHook, WaitOK, TerminalFollowsWait, WaitedJobStaysListed, kernelVars, childVars, shellVars
<1>5. HeardOK'
  BY DEF IInv, EventHook, PlaceOK, HeardOK, Blocking, Listening, ProcessesOf, Owed, kernelVars, childVars, shellVars
<1> QED BY <1>1, <1>2, <1>3, <1>4, <1>5 DEF IInv

LEMMA ReapDoneKeeps ==
  ASSUME IInv, ReapDone
  PROVE  IInv'
<1>1. TypeOK'
  BY DEF IInv, ReapDone, TypeOK, KernelTypeOK, PCs, kernelVars, childVars, shellVars
<1>2. EntriesOK' /\ StoppedIsForeground'
  BY SameTable DEF IInv, ReapDone, kernelVars, shellVars
<1>3. PlaceOK'
  BY DEF IInv, ReapDone, PlaceOK, AtPrompt, InFg, kernelVars, childVars, shellVars
<1>4. WaitOK'
  BY DEF IInv, ReapDone, WaitOK, TerminalFollowsWait, WaitedJobStaysListed, kernelVars, childVars, shellVars
<1>5. HeardOK'
  BY DEF IInv, ReapDone, HeardOK, Blocking, Listening, ProcessesOf, Owed, kernelVars, childVars, shellVars
<1> QED BY <1>1, <1>2, <1>3, <1>4, <1>5 DEF IInv

LEMMA NoSuchGroupKeeps ==
  ASSUME IInv, NoSuchGroup
  PROVE  IInv'
<1>1. TypeOK'
  BY DEF IInv, NoSuchGroup, TypeOK, KernelTypeOK, PCs, kernelVars, childVars, shellVars
<1>2. EntriesOK' /\ StoppedIsForeground'
  BY SameTable DEF IInv, NoSuchGroup, kernelVars, shellVars
<1>3. PlaceOK'
  BY DEF IInv, NoSuchGroup, PlaceOK, AtPrompt, InFg, kernelVars, childVars, shellVars
<1>4. WaitOK'
  BY DEF IInv, NoSuchGroup, WaitOK, TerminalFollowsWait, WaitedJobStaysListed, kernelVars, childVars, shellVars
<1>5. HeardOK'
  BY DEF IInv, NoSuchGroup, HeardOK, Blocking, Listening, ProcessesOf, Owed, kernelVars, childVars, shellVars
<1> QED BY <1>1, <1>2, <1>3, <1>4, <1>5 DEF IInv

LEMMA FgBlocksSignalsKeeps ==
  ASSUME IInv, FgBlocksSignals
  PROVE  IInv'
<1>1. TypeOK'
  BY DEF IInv, FgBlocksSignals, TypeOK, KernelTypeOK, PCs, kernelVars, childVars, shellVars
<1>2. EntriesOK' /\ StoppedIsForeground'
  BY SameTable DEF IInv, FgBlocksSignals, kernelVars, shellVars
<1>3. PlaceOK'
  BY DEF IInv, FgBlocksSignals, PlaceOK, AtPrompt, InFg, kernelVars, childVars, shellVars
<1>4. WaitOK'
  BY DEF IInv, FgBlocksSignals, WaitOK, TerminalFollowsWait, WaitedJobStaysListed, kernelVars, childVars, shellVars
<1>5. HeardOK'
  <2>1. wait # cur
    BY DEF IInv, FgBlocksSignals, PlaceOK, InFg, WaitOK
  <2> QED BY <2>1 DEF IInv, FgBlocksSignals, HeardOK, Blocking, Listening, ProcessesOf, Owed, kernelVars, childVars, shellVars
<1> QED BY <1>1, <1>2, <1>3, <1>4, <1>5 DEF IInv

LEMMA OtherLineKeeps ==
  ASSUME IInv, OtherLine
  PROVE  IInv'
<1>1. TypeOK'
  BY DEF IInv, OtherLine, TypeOK, KernelTypeOK, PCs, kernelVars, childVars, shellVars
<1>2. EntriesOK' /\ StoppedIsForeground'
  BY SameTable DEF IInv, OtherLine, kernelVars, shellVars
<1>3. PlaceOK'
  BY DEF IInv, OtherLine, PlaceOK, AtPrompt, InFg, kernelVars, childVars, shellVars
<1>4. WaitOK'
  BY DEF IInv, OtherLine, WaitOK, TerminalFollowsWait, WaitedJobStaysListed, kernelVars, childVars, shellVars
<1>5. HeardOK'
  BY DEF IInv, OtherLine, HeardOK, Blocking, Listening, ProcessesOf, Owed, kernelVars, childVars, shellVars
<1> QED BY <1>1, <1>2, <1>3, <1>4, <1>5 DEF IInv

LEMMA ExitKeeps ==
  ASSUME IInv, Exit
  PROVE  IInv'
<1>1. TypeOK'
  BY DEF IInv, Exit, TypeOK, KernelTypeOK, PCs, kernelVars, childVars, shellVars
<1>2. EntriesOK' /\ StoppedIsForeground'
  BY SameTable DEF IInv, Exit, kernelVars, shellVars
<1>3. PlaceOK'
  BY DEF IInv, Exit, PlaceOK, AtPrompt, InFg, kernelVars, childVars, shellVars
<1>4. WaitOK'
  BY DEF IInv, Exit, WaitOK, TerminalFollowsWait, WaitedJobStaysListed, kernelVars, childVars, shellVars
<1>5. HeardOK'
  BY DEF IInv, Exit, HeardOK, Blocking, Listening, ProcessesOf, Owed, kernelVars, childVars, shellVars
<1> QED BY <1>1, <1>2, <1>3, <1>4, <1>5 DEF IInv

LEMMA EndOfFileKeeps ==
  ASSUME IInv, EndOfFile
  PROVE  IInv'
<1>1. TypeOK'
  BY DEF IInv, EndOfFile, TypeOK, KernelTypeOK, PCs, kernelVars, childVars, shellVars
<1>2. EntriesOK' /\ StoppedIsForeground'
  BY SameTable DEF IInv, EndOfFile, kernelVars, shellVars
<1>3. PlaceOK'
  BY DEF IInv, EndOfFile, PlaceOK, AtPrompt, InFg, kernelVars, childVars, shellVars
<1>4. WaitOK'
  BY DEF IInv, EndOfFile, WaitOK, TerminalFollowsWait, WaitedJobStaysListed, kernelVars, childVars, shellVars
<1>5. HeardOK'
  BY DEF IInv, EndOfFile, HeardOK, Blocking, Listening, ProcessesOf, Owed, kernelVars, childVars, shellVars
<1> QED BY <1>1, <1>2, <1>3, <1>4, <1>5 DEF IInv

LEMMA KeyIntKeeps ==
  ASSUME IInv, KeyInt
  PROVE  IInv'
<1>1. TypeOK'
  BY DEF IInv, KeyInt, TypeOK, KernelTypeOK, PCs, kernelVars, childVars, shellVars
<1>2. EntriesOK' /\ StoppedIsForeground'
  BY SameTable DEF IInv, KeyInt, kernelVars, shellVars
<1>3. PlaceOK'
  BY DEF IInv, KeyInt, PlaceOK, AtPrompt, InFg, kernelVars, childVars, shellVars
<1>4. WaitOK'
  BY DEF IInv, KeyInt, WaitOK, TerminalFollowsWait, WaitedJobStaysListed, kernelVars, childVars, shellVars
<1>5. HeardOK'
  BY DEF IInv, KeyInt, HeardOK, Blocking, Listening, ProcessesOf, Owed, kernelVars, childVars, shellVars
<1> QED BY <1>1, <1>2, <1>3, <1>4, <1>5 DEF IInv

LEMMA KeyTstpKeeps ==
  ASSUME IInv, KeyTstp
  PROVE  IInv'
<1>1. TypeOK'
  BY DEF IInv, KeyTstp, TypeOK, KernelTypeOK, PCs, kernelVars, childVars, shellVars
<1>2. EntriesOK' /\ StoppedIsForeground'
  BY SameTable DEF IInv, KeyTstp, kernelVars, shellVars
<1>3. PlaceOK'
  BY DEF IInv, KeyTstp, PlaceOK, AtPrompt, InFg, kernelVars, childVars, shellVars
<1>4. WaitOK'
  BY DEF IInv, KeyTstp, WaitOK, TerminalFollowsWait, WaitedJobStaysListed, kernelVars, childVars, shellVars
<1>5. HeardOK'
  BY DEF IInv, KeyTstp, HeardOK, Blocking, Listening, ProcessesOf, Owed, kernelVars, childVars, shellVars
<1> QED BY <1>1, <1>2, <1>3, <1>4, <1>5 DEF IInv

LEMMA KeyTstpToForegroundKeeps ==
  ASSUME IInv, KeyTstpToForeground
  PROVE  IInv'
<1>1. TypeOK'
  BY DEF IInv, KeyTstpToForeground, KeyTstpToJob, SendTstp, Running, Members, TypeOK, KernelTypeOK, PCs, kernelVars, childVars, shellVars
<1>2. EntriesOK' /\ StoppedIsForeground'
  BY SameTable DEF IInv, KeyTstpToForeground, KeyTstpToJob, SendTstp, Running, Members, kernelVars, shellVars
<1>3. PlaceOK'
  BY DEF IInv, KeyTstpToForeground, KeyTstpToJob, SendTstp, Running, Members, PlaceOK, AtPrompt, InFg, kernelVars, childVars, shellVars
<1>4. WaitOK'
  BY DEF IInv, KeyTstpToForeground, KeyTstpToJob, SendTstp, Running, Members, WaitOK, TerminalFollowsWait, WaitedJobStaysListed, kernelVars, childVars, shellVars
<1>5. HeardOK'
  BY DEF IInv, KeyTstpToForeground, KeyTstpToJob, SendTstp, Running, Members, HeardOK, Blocking, Listening, ProcessesOf, Owed, kernelVars, childVars, shellVars
<1> QED BY <1>1, <1>2, <1>3, <1>4, <1>5 DEF IInv

LEMMA LaunchBackgroundKeeps ==
  ASSUME IInv, LaunchBackground
  PROVE  IInv'
<1>1. TypeOK'
  BY DEF IInv, LaunchBackground, TypeOK, KernelTypeOK, PCs, kernelVars, childVars
<1>2. cur \in Listed(table) /\ table.at[cur].pgid # NoPid
  BY DEF IInv, LaunchBackground, PlaceOK
<1>3. EntriesOK' /\ StoppedIsForeground'
  BY <1>2 DEF IInv, LaunchBackground, EntriesOK, StoppedIsForeground, NoDuplicates,
              GroupsAreDistinct, ProcessesOf
<1>4. PlaceOK'
  BY DEF IInv, LaunchBackground, PlaceOK, AtPrompt, InFg
<1>5. WaitOK'
  BY DEF IInv, LaunchBackground, WaitOK, TerminalFollowsWait, WaitedJobStaysListed,
         kernelVars
<1>6. HeardOK'
  BY DEF IInv, LaunchBackground, HeardOK, Blocking, Listening, Owed, kernelVars, childVars
<1> QED BY <1>1, <1>3, <1>4, <1>5, <1>6 DEF IInv

LEMMA LaunchForegroundKeeps ==
  ASSUME IInv, LaunchForeground
  PROVE  IInv'
<1>1. cur \in Listed(table) /\ cur \in Jobs /\ table.at[cur].pgid \in Pids
  BY TypeFacts DEF IInv, LaunchForeground, PlaceOK
<1>2. TypeOK'
  BY <1>1 DEF IInv, LaunchForeground, TypeOK, KernelTypeOK, PCs, childVars
<1>3. EntriesOK' /\ StoppedIsForeground'
  BY SameTable DEF IInv, LaunchForeground
<1>4. PlaceOK'
  BY <1>1, Constants DEF IInv, LaunchForeground, PlaceOK, AtPrompt, InFg
<1>5. WaitOK'
  BY <1>1, Constants DEF IInv, LaunchForeground, WaitOK, TerminalFollowsWait,
                         WaitedJobStaysListed
<1>6. HeardOK'
  BY DEF IInv, LaunchForeground, HeardOK, Blocking, Listening, ProcessesOf, Owed, childVars
<1> QED BY <1>2, <1>3, <1>4, <1>5, <1>6 DEF IInv

LEMMA LeaveRunJobKeeps ==
  ASSUME IInv, LeaveRunJob
  PROVE  IInv'
<1>1. TypeOK'
  BY DEF IInv, LeaveRunJob, executor_destroy_context, TypeOK, KernelTypeOK, PCs, childVars
<1>2. EntriesOK' /\ StoppedIsForeground'
  BY DEF IInv, LeaveRunJob, EntriesOK, StoppedIsForeground, NoDuplicates,
         GroupsAreDistinct, ProcessesOf
<1>3. pc' \in {"readline", "killed"} /\ cur' = NoJob /\ wait = NoJob /\ wait' = wait
  BY DEF IInv, LeaveRunJob, executor_destroy_context, PlaceOK
<1>4. PlaceOK'
  BY <1>3 DEF PlaceOK, AtPrompt, InFg
<1>5. WaitOK'
  BY DEF IInv, LeaveRunJob, WaitOK, TerminalFollowsWait, WaitedJobStaysListed
<1>6. HeardOK'
  BY <1>3 DEF IInv, LeaveRunJob, HeardOK, Blocking, Listening, childVars
<1> QED BY <1>1, <1>2, <1>4, <1>5, <1>6 DEF IInv

LEMMA JobStoppedKeeps ==
  ASSUME IInv, JobStopped
  PROVE  IInv'
<1>1. wait # NoJob /\ wait \in Listed(table) /\ table.at[wait].pgid # NoPid
  BY DEF IInv, JobStopped, PlaceOK, WaitOK, WaitedJobStaysListed
<1>2. TypeOK'
  BY DEF IInv, JobStopped, ReturnToCaller, shell_regain_control, TypeOK, KernelTypeOK,
         PCs, childVars
<1>3. EntriesOK' /\ StoppedIsForeground'
  <2>1. pc' = "leave" => wait = cur
    BY DEF JobStopped, ReturnToCaller
  <2> QED BY <1>1, <2>1 DEF IInv, JobStopped, EntriesOK, StoppedIsForeground,
                            NoDuplicates, GroupsAreDistinct, ProcessesOf
<1>4. PlaceOK'
  BY <1>1 DEF IInv, JobStopped, ReturnToCaller, PlaceOK, AtPrompt, InFg
<1>5. WaitOK'
  BY DEF JobStopped, ReturnToCaller, shell_regain_control, WaitOK, TerminalFollowsWait,
         WaitedJobStaysListed
<1>6. HeardOK'
  BY DEF IInv, JobStopped, ReturnToCaller, HeardOK, Blocking, Listening, childVars
<1> QED BY <1>2, <1>3, <1>4, <1>5, <1>6 DEF IInv

(* A child's step leaves the terminal and the mask alone, and its report   *)
(* comes with a SIGCHLD that a blocking shell keeps.                       *)
LEMMA ChildFacts ==
  ASSUME KernelTypeOK, NEW p \in Pids, ChildStep(p)
  PROVE  /\ KernelTypeOK'
         /\ tty' = tty /\ blocked' = blocked
         /\ blocked => "CHLD" \in pending'
         /\ (\A q \in Pids : proc[q] = "none" => report[q] = "none")
              => \A q \in Pids : proc'[q] = "none" => report'[q] = "none"
<1>1. CASE ChildEnds(p) \/ OtherKills(p)
  BY <1>1 DEF ChildEnds, OtherKills, End, NotifyShell, KernelTypeOK
<1>2. CASE ChildStops(p) \/ OtherStops(p)
  BY <1>2 DEF ChildStops, OtherStops, Stop, NotifyShell, KernelTypeOK
<1>3. CASE OtherContinues(p)
  BY <1>3 DEF OtherContinues, NotifyShell, KernelTypeOK
<1> QED BY <1>1, <1>2, <1>3 DEF ChildStep

LEMMA ChildRunsKeeps ==
  ASSUME IInv, NEW p \in Pids, ChildRuns(p)
  PROVE  IInv'
<1>1. ChildStep(p) /\ KernelTypeOK
  BY DEF IInv, ChildRuns, TypeOK
<1>2. TypeOK'
  BY <1>1, ChildFacts DEF IInv, ChildRuns, TypeOK, PCs, shellVars
<1>3. EntriesOK' /\ StoppedIsForeground'
  BY SameTable DEF IInv, ChildRuns, shellVars
<1>4. PlaceOK'
  BY DEF IInv, ChildRuns, PlaceOK, AtPrompt, InFg, shellVars
<1>5. WaitOK'
  BY <1>1, ChildFacts DEF IInv, ChildRuns, WaitOK, TerminalFollowsWait,
                          WaitedJobStaysListed, shellVars
<1>6. HeardOK'
  <2>1. /\ Blocking' = Blocking
        /\ Listening => Blocking
        /\ Listening' = Listening
    BY DEF IInv, ChildRuns, Blocking, Listening, shellVars
  <2> QED BY <1>1, <2>1, ChildFacts DEF IInv, HeardOK
<1> QED BY <1>2, <1>3, <1>4, <1>5, <1>6 DEF IInv

-----------------------------------------------------------------------------
(* Steps that change the table *)

(* What the lemmas about the table need to know of it.                     *)
LEMMA TableFacts ==
  ASSUME IInv
  PROVE  /\ table \in shell_jobs_t
         /\ NoDuplicates(table)
         /\ DistinctGroups(table)
         /\ Listed(table) \in SUBSET Jobs
BY TypeFacts DEF IInv, EntriesOK, GroupsAreDistinct, DistinctGroups

(* At the prompt every entry has its process group.                        *)
LEMMA NoOpenEntry ==
  ASSUME IInv, pc = "readline"
  PROVE  \A j \in Listed(table) : table.at[j].pgid # NoPid
BY TableFacts, Constants DEF IInv, EntriesOK, PlaceOK, AtPrompt

LEMMA AddedJob ==
  ASSUME IInv, pc = "readline", NEW j \in Jobs, j \notin Listed(table),
         NEW bg \in BOOLEAN, table' = jobs_add_job(table, j, bg), cur' = j,
         pc' # "leave"
  PROVE  /\ table' \in shell_jobs_t
         /\ EntriesOK' /\ StoppedIsForeground'
         /\ j \in Listed(table') /\ table'.at[j].pgid = NoPid
         /\ ProcessesOf(j)' = {}
<1>1. /\ table' \in shell_jobs_t
      /\ Listed(table') = Listed(table) \cup {j}
      /\ NoDuplicates(table')
      /\ table'.at[j].pgid = NoPid
      /\ table'.at[j].state = "running"
      /\ table'.at[j].process = [p \in Pids |-> "absent"]
      /\ \A i \in Jobs \ {j} : table'.at[i] = table.at[i]
  BY TableFacts, AddJobFacts
<1>2. ProcessesOf(j)' = {}
  BY <1>1 DEF ProcessesOf
<1>3. EntriesOK'
  BY <1>1, <1>2, TableFacts, NoOpenEntry DEF IInv, EntriesOK, GroupsAreDistinct, ProcessesOf
<1>4. StoppedIsForeground'
  BY <1>1, TableFacts DEF IInv, StoppedIsForeground
<1> QED BY <1>1, <1>2, <1>3, <1>4

LEMMA StartJobKeeps ==
  ASSUME IInv, NEW j \in Jobs, NEW n \in PipelineSizes, NEW bg \in BOOLEAN,
         StartJob(j, n, bg)
  PROVE  IInv'
<1>1. /\ table' \in shell_jobs_t
      /\ EntriesOK' /\ StoppedIsForeground'
      /\ cur' \in Listed(table') /\ table'.at[cur'].pgid = NoPid
      /\ ProcessesOf(j)' = {}
  BY AddedJob DEF StartJob
<1>2. left' \in Nat /\ left' # 0
  BY JobControlAssumption DEF StartJob
<1>3. TypeOK'
  BY <1>1, <1>2 DEF IInv, StartJob, executor_init_context, TypeOK, KernelTypeOK, PCs, childVars
<1>4. wait = NoJob /\ wait' = wait /\ pc' = "fork"
  BY DEF IInv, StartJob, PlaceOK
<1>5. PlaceOK'
  BY <1>1, <1>2, <1>4 DEF PlaceOK, AtPrompt, InFg
<1>6. WaitOK'
  BY <1>4 DEF IInv, StartJob, WaitOK, TerminalFollowsWait, WaitedJobStaysListed
<1>7. HeardOK'
  BY <1>1 DEF IInv, StartJob, executor_init_context, HeardOK, Blocking, Listening, childVars
<1> QED BY <1>1, <1>3, <1>5, <1>6, <1>7 DEF IInv

LEMMA StartBuiltinKeeps ==
  ASSUME IInv, NEW name \in {"fg", "bg"}, NEW j \in Jobs, NEW ids \in Seq(Nat),
         NEW bg \in BOOLEAN, StartBuiltin(name, j, ids, bg)
  PROVE  IInv'
<1>1. /\ table' \in shell_jobs_t
      /\ EntriesOK' /\ StoppedIsForeground'
      /\ cur' \in Listed(table') /\ table'.at[cur'].pgid = NoPid
  BY AddedJob DEF StartBuiltin
<1>2. TypeOK'
  BY <1>1 DEF IInv, StartBuiltin, TypeOK, KernelTypeOK, PCs, kernelVars, childVars
<1>3. wait = NoJob /\ wait' = wait /\ pc' \in {"fg", "bg"}
  BY DEF IInv, StartBuiltin, PlaceOK
<1>4. PlaceOK'
  BY <1>1, <1>3 DEF PlaceOK, AtPrompt, InFg
<1>5. WaitOK'
  BY <1>3 DEF IInv, StartBuiltin, WaitOK, TerminalFollowsWait, WaitedJobStaysListed,
              kernelVars
<1>6. HeardOK'
  BY <1>3 DEF IInv, StartBuiltin, HeardOK, Blocking, Listening, kernelVars, childVars
<1> QED BY <1>1, <1>2, <1>4, <1>5, <1>6 DEF IInv

(* The entry of a builtin is found again by its process group 0.           *)
LEMMA EndBuiltinKeeps ==
  ASSUME IInv, pc \in {"fg", "bg"}, EndBuiltin
  PROVE  IInv'
<1>1. wait = NoJob /\ cur \in Listed(table) /\ table.at[cur].pgid = NoPid
  BY DEF IInv, PlaceOK, InFg
<1>2. /\ table' \in shell_jobs_t
      /\ NoDuplicates(table')
      /\ Listed(table') = Listed(table) \ {cur}
      /\ \A i \in Jobs \ {cur} : table'.at[i] = table.at[i]
  BY <1>1, TableFacts, RemoveJobByGroup DEF EndBuiltin, drop_builtin
<1>3. \A i \in Listed(table') : table'.at[i] = table.at[i] /\ table.at[i].pgid # NoPid
  BY <1>1, <1>2, TableFacts DEF IInv, EntriesOK
<1>4. TypeOK'
  BY <1>2 DEF IInv, EndBuiltin, TypeOK, KernelTypeOK, PCs, kernelVars, childVars
<1>5. EntriesOK' /\ StoppedIsForeground'
  BY <1>2, <1>3 DEF IInv, EntriesOK, GroupsAreDistinct, StoppedIsForeground, ProcessesOf
<1>6. PlaceOK'
  BY <1>1 DEF EndBuiltin, PlaceOK, AtPrompt, InFg
<1>7. WaitOK'
  BY <1>1 DEF IInv, EndBuiltin, WaitOK, TerminalFollowsWait, WaitedJobStaysListed,
              kernelVars
<1>8. HeardOK'
  BY <1>1 DEF IInv, EndBuiltin, HeardOK, Blocking, Listening, kernelVars, childVars
<1> QED BY <1>4, <1>5, <1>6, <1>7, <1>8 DEF IInv

LEMMA ForkProcessKeeps ==
  ASSUME IInv, NEW p \in Pids, ForkProcess(p)
  PROVE  IInv'
<1> DEFINE pgid == IF table.at[cur].pgid = NoPid THEN p ELSE table.at[cur].pgid
<1>1. /\ cur \in Listed(table) /\ cur \in Jobs /\ pgid \in Pids
      /\ cur' = cur /\ wait = NoJob /\ wait' = wait /\ pc = "fork" /\ pc' = pc
  BY TypeFacts DEF IInv, ForkProcess, PlaceOK
<1>2. /\ InPlace(table, table', cur)
      /\ table'.at[cur].pgid = pgid
      /\ table'.at[cur].is_background = table.at[cur].is_background
      /\ table'.at[cur].state = table.at[cur].state
      /\ \A q \in Pids \ {p} : table'.at[cur].process[q] = table.at[cur].process[q]
  BY <1>1, TableFacts, AddChildFacts DEF ForkProcess
<1>3. Listed(table') = Listed(table) /\ NoDuplicates(table')
  BY <1>2, InPlaceListed, TableFacts
<1>4. \A i \in Listed(table) \ {cur} : table'.at[i] = table.at[i]
  BY <1>2, TableFacts DEF InPlace
<1>5. \A i \in Listed(table) \ {cur} : table.at[i].pgid # pgid
  BY <1>1, TableFacts DEF ForkProcess, FreshPid, DistinctGroups
<1>6. TypeOK'
  <2>1. KernelTypeOK'
    BY <1>1 DEF IInv, TypeOK, KernelTypeOK, ForkProcess, Fork
  <2>2. left' \in Nat
    BY DEF IInv, ForkProcess, TypeOK
  <2>3. table' \in shell_jobs_t
    BY <1>2 DEF InPlace
  <2> QED BY <1>1, <2>1, <2>2, <2>3 DEF IInv, ForkProcess, TypeOK
<1>7. EntriesOK'
  BY <1>1, <1>2, <1>3, <1>4, <1>5, Constants
     DEF IInv, EntriesOK, GroupsAreDistinct, ProcessesOf
<1>8. StoppedIsForeground'
  BY <1>2, <1>3, <1>4 DEF IInv, StoppedIsForeground
<1>9. PlaceOK'
  BY <1>1, <1>2, <1>3, Constants DEF PlaceOK, AtPrompt, InFg
<1>10. WaitOK'
  BY <1>1 DEF IInv, ForkProcess, Fork, WaitOK, TerminalFollowsWait, WaitedJobStaysListed
<1>11. HeardOK'
  <2>1. /\ proc' = [proc EXCEPT ![p] = "running"]
        /\ report' = report /\ report[p] = "none"
        /\ blocked' = blocked /\ pending' = pending
    BY DEF IInv, ForkProcess, Fork, FreshPid, HeardOK
  <2>2. \A q \in Pids : q = p => ~Owed(q)'
    BY <2>1 DEF IInv, TypeOK, KernelTypeOK, Owed
  <2>3. \A q \in Pids \ {p} : Owed(q)' = Owed(q)
                              /\ (q \in ProcessesOf(cur)' <=> q \in ProcessesOf(cur))
    BY <1>1, <1>2, <2>1 DEF IInv, TypeOK, KernelTypeOK, Owed, ProcessesOf
  <2>4. \A q \in Pids : proc'[q] = "none" => report'[q] = "none"
    BY <2>1 DEF IInv, TypeOK, KernelTypeOK, HeardOK
  <2>5. \A q \in ProcessesOf(cur)' : q \in Pids
    BY DEF ProcessesOf
  <2> QED BY <1>1, <2>1, <2>2, <2>3, <2>4, <2>5 DEF IInv, HeardOK, Blocking, Listening
<1> QED BY <1>6, <1>7, <1>8, <1>9, <1>10, <1>11 DEF IInv

(* A step that changes one entry, but neither its group nor its processes. *)
LEMMA SameGroups ==
  ASSUME IInv, NEW j \in Listed(table), SameGroup(table, table', j), cur' = cur,
         pc' = "leave" => pc = "leave",
         table'.at[j].state = "stopped" => ~table'.at[j].is_background
  PROVE  /\ table' \in shell_jobs_t
         /\ EntriesOK' /\ StoppedIsForeground'
         /\ Listed(table') = Listed(table)
         /\ \A i \in Listed(table) \ {j} : table'.at[i] = table.at[i]
         /\ \A i \in Listed(table) : /\ table'.at[i].pgid = table.at[i].pgid
                                     /\ ProcessesOf(i)' = ProcessesOf(i)
<1>1. /\ table' \in shell_jobs_t
      /\ Listed(table') = Listed(table) /\ NoDuplicates(table')
      /\ \A i \in Listed(table) \ {j} : table'.at[i] = table.at[i]
  BY TableFacts, InPlaceListed DEF SameGroup, InPlace
<1>2. ASSUME NEW i \in Listed(table)
      PROVE  /\ table'.at[i].pgid = table.at[i].pgid
             /\ ProcessesOf(i)' = ProcessesOf(i)
  <2>1. CASE i = j
    BY <2>1 DEF SameGroup, ProcessesOf
  <2>2. CASE i # j
    BY <1>1, <2>2 DEF ProcessesOf
  <2> QED BY <2>1, <2>2
<1>3. EntriesOK'
  BY <1>1, <1>2 DEF IInv, EntriesOK, GroupsAreDistinct
<1>4. StoppedIsForeground'
  BY <1>1 DEF IInv, StoppedIsForeground
<1> QED BY <1>1, <1>2, <1>3, <1>4

(* SIGCONT to a group keeps the kernel's records typed.                    *)
LEMMA ContinueFacts ==
  ASSUME KernelTypeOK, NEW g, Continue(g), UNCHANGED <<group, deaf, blocked>>,
         tty' \in Pids \cup {Shell}
  PROVE  /\ KernelTypeOK'
         /\ (\A q \in Pids : proc[q] = "none" => report[q] = "none")
              => \A q \in Pids : proc'[q] = "none" => report'[q] = "none"
<1> DEFINE woken == {q \in Members(g) : proc[q] = "stopped"}
<1>1. /\ proc' = [q \in Pids |-> IF q \in woken THEN "running" ELSE proc[q]]
      /\ report' = [q \in Pids |-> IF q \in woken THEN "continued" ELSE report[q]]
      /\ tstp' \in SUBSET Pids
      /\ pending' \in SUBSET {"CHLD", "INT", "TSTP"}
  BY DEF Continue, NotifyShell, KernelTypeOK
<1> HIDE DEF woken
<1> QED BY <1>1 DEF KernelTypeOK

LEMMA FgTableFacts ==
  ASSUME NEW t \in shell_jobs_t, NEW j \in Jobs
  PROVE  LET u == to_foreground(t, j)
         IN  SameGroup(t, u, j) /\ ~u.at[j].is_background
<1> DEFINE new == [t.at[j] EXCEPT !.is_background = FALSE]
<1>1. t.at[j] \in job_t /\ t.running_jobs_count \in 0 .. MaxSize
  BY TableType
<1>2. /\ new \in job_t
      /\ new.pgid = t.at[j].pgid
      /\ new.process = t.at[j].process
      /\ ~new.is_background
  BY <1>1 DEF job_t
<1>3. to_foreground(t, j) = Store(t, j, new, t.running_jobs_count)
  BY DEF to_foreground
<1> HIDE DEF new
<1> QED BY <1>1, <1>2, <1>3, StoreSameGroup

LEMMA FgKeeps ==
  ASSUME IInv, Fg
  PROVE  IInv'
<1> DEFINE j == find_target_job_fg(table, Head(args))
           pgid == table.at[j].pgid
<1>1. j # NoJob /\ GroupExists(pgid)
  BY DEF Fg, target
<1>2. j \in Listed(table) /\ j \in Jobs
  BY <1>1, FindFgFacts, TableFacts
<1>3. pgid \in Pids
  BY <1>1, <1>2, ExistingGroup, TypeFacts DEF IInv
<1>4. /\ pc = "fg" /\ pc' = "fgmask" /\ cur' = cur /\ wait' = j /\ tty' = pgid
      /\ cur \in Listed(table) /\ table.at[cur].pgid = NoPid
  BY DEF IInv, Fg, target, PlaceOK, InFg
<1>5. SameGroup(table, table', j) /\ ~table'.at[j].is_background
  <2>1. \/ table' = to_foreground(table, j)
        \/ table' = resume_job(table, j, FALSE)
    BY DEF Fg, target
  <2> QED BY <1>2, <2>1, FgTableFacts, ResumeJobFacts, TableFacts
<1>6. /\ KernelTypeOK'
      /\ \A q \in Pids : proc'[q] = "none" => report'[q] = "none"
  <2>1. UNCHANGED <<group, deaf, blocked>> /\ KernelTypeOK
        /\ \A q \in Pids : proc[q] = "none" => report[q] = "none"
    BY DEF IInv, Fg, TypeOK, HeardOK
  <2>2. CASE UNCHANGED <<proc, report, tstp, pending>>
    BY <1>3, <1>4, <2>1, <2>2 DEF KernelTypeOK
  <2>3. CASE Continue(pgid)
    BY <1>3, <1>4, <2>1, <2>3, ContinueFacts
  <2> QED BY <2>2, <2>3 DEF Fg, target
<1> HIDE DEF j
<1>7. /\ table' \in shell_jobs_t
      /\ EntriesOK' /\ StoppedIsForeground'
      /\ Listed(table') = Listed(table)
      /\ \A i \in Listed(table) : table'.at[i].pgid = table.at[i].pgid
  BY <1>2, <1>4, <1>5, SameGroups
<1>8. TypeOK'
  <2>1. args' \in Seq(Nat)
    BY DEF IInv, TypeOK, Fg
  <2> QED BY <1>2, <1>4, <1>6, <1>7, <2>1 DEF IInv, Fg, TypeOK, PCs
<1>9. PlaceOK'
  BY <1>1, <1>4, <1>7 DEF PlaceOK, AtPrompt, InFg
<1>10. WaitOK'
  BY <1>2, <1>3, <1>4, <1>5, <1>7, Constants
     DEF WaitOK, TerminalFollowsWait, WaitedJobStaysListed
<1>11. HeardOK'
  BY <1>4, <1>6 DEF HeardOK, Blocking, Listening
<1> QED BY <1>7, <1>8, <1>9, <1>10, <1>11 DEF IInv

LEMMA BgKeeps ==
  ASSUME IInv, Bg
  PROVE  IInv'
<1> DEFINE j == find_target_job_bg(table, Head(args))
           pgid == table.at[j].pgid
<1>1. j # NoJob /\ Continue(pgid) /\ table' = resume_job(table, j, TRUE)
  BY DEF Bg, target
<1>2. j \in Listed(table) /\ j \in Jobs
  BY <1>1, FindBgFacts, TableFacts
<1>3. /\ pc = "bg" /\ pc' = pc /\ cur' = cur /\ wait = NoJob /\ wait' = wait
      /\ cur \in Listed(table) /\ table.at[cur].pgid = NoPid
  BY DEF IInv, Bg, PlaceOK, InFg
<1>4. SameGroup(table, table', j) /\ table'.at[j].state = "running"
  BY <1>1, <1>2, ResumeJobFacts, TableFacts
<1>5. /\ KernelTypeOK'
      /\ \A q \in Pids : proc'[q] = "none" => report'[q] = "none"
  <2>1. UNCHANGED <<group, deaf, blocked>> /\ KernelTypeOK /\ tty' \in Pids \cup {Shell}
        /\ \A q \in Pids : proc[q] = "none" => report[q] = "none"
    BY DEF IInv, Bg, TypeOK, KernelTypeOK, HeardOK
  <2> QED BY <1>1, <2>1, ContinueFacts
<1> HIDE DEF j
<1>6. /\ table' \in shell_jobs_t
      /\ EntriesOK' /\ StoppedIsForeground'
      /\ Listed(table') = Listed(table)
      /\ \A i \in Listed(table) : table'.at[i].pgid = table.at[i].pgid
  BY <1>2, <1>3, <1>4, SameGroups
<1>7. TypeOK'
  <2>1. args' \in Seq(Nat)
    BY DEF IInv, TypeOK, Bg
  <2> QED BY <1>3, <1>5, <1>6, <2>1 DEF IInv, Bg, TypeOK, PCs
<1>8. PlaceOK'
  BY <1>3, <1>6 DEF PlaceOK, AtPrompt, InFg
<1>9. WaitOK'
  BY <1>3 DEF IInv, Bg, WaitOK, TerminalFollowsWait, WaitedJobStaysListed
<1>10. HeardOK'
  BY <1>3, <1>5 DEF HeardOK, Blocking, Listening
<1> QED BY <1>6, <1>7, <1>8, <1>9, <1>10 DEF IInv

LEMMA JobFinishedKeeps ==
  ASSUME IInv, JobFinished
  PROVE  IInv'
<1>1. wait # NoJob /\ wait \in Listed(table) /\ table.at[wait].pgid # NoPid
  BY DEF IInv, JobFinished, PlaceOK, WaitOK, WaitedJobStaysListed
<1>2. /\ table' \in shell_jobs_t
      /\ NoDuplicates(table')
      /\ Listed(table') = Listed(table) \ {wait}
      /\ \A i \in Listed(table') : table'.at[i] = table.at[i]
  <2>1. table' = jobs_remove_job(table, table.at[wait].pgid)
    BY DEF JobFinished
  <2> QED BY <1>1, <2>1, TableFacts, RemoveJobByGroup
<1>3. /\ wait' = NoJob /\ tty' = Shell /\ cur' = cur
      /\ wait = cur => pc' = "leave"
      /\ wait # cur => pc' = "fg"
  BY DEF JobFinished, ReturnToCaller, shell_regain_control
<1>4. TypeOK'
  BY <1>2 DEF IInv, JobFinished, ReturnToCaller, shell_regain_control, TypeOK,
              KernelTypeOK, PCs, childVars
<1>5. EntriesOK'
  BY <1>1, <1>2, <1>3 DEF IInv, EntriesOK, GroupsAreDistinct, ProcessesOf
<1>6. StoppedIsForeground'
  BY <1>2 DEF IInv, StoppedIsForeground
<1>7. PlaceOK'
  <2>1. wait # cur => cur \in Listed(table) /\ table.at[cur].pgid = NoPid
    BY <1>1 DEF IInv, PlaceOK, InFg
  <2> QED BY <1>1, <1>2, <1>3, <2>1 DEF PlaceOK, AtPrompt, InFg
<1>8. WaitOK'
  BY <1>3 DEF WaitOK, TerminalFollowsWait, WaitedJobStaysListed
<1>9. HeardOK'
  BY <1>3 DEF IInv, JobFinished, HeardOK, Blocking, Listening, childVars
<1> QED BY <1>4, <1>5, <1>6, <1>7, <1>8, <1>9 DEF IInv

LEMMA WaitFacts ==
  ASSUME KernelTypeOK, NEW p \in Pids, Wait(p)
  PROVE  /\ KernelTypeOK'
         /\ tty' = tty /\ blocked' = blocked
         /\ ReportOf(p) \in {"exited", "stopped", "continued"}
         /\ (\A q \in Pids : proc[q] = "none" => report[q] = "none")
              => \A q \in Pids : proc'[q] = "none" => report'[q] = "none"
<1>1. ReportOf(p) \in {"exited", "stopped", "continued"}
  BY DEF Wait, Owed, ReportOf, KernelTypeOK
<1>2. CASE proc[p] = "zombie"
  BY <1>1, <1>2 DEF Wait, KernelTypeOK
<1>3. CASE proc[p] # "zombie"
  BY <1>1, <1>3 DEF Wait, KernelTypeOK
<1> QED BY <1>2, <1>3

LEMMA ReapKeeps ==
  ASSUME IInv, NEW p \in Pids, Reap(p)
  PROVE  IInv'
<1> DEFINE j == jobs_find_process_by_pid(table, p)
<1>1. /\ pc = "reap" /\ pc' = pc /\ cur' = cur /\ wait' = wait
      /\ Wait(p) /\ KernelTypeOK
      /\ table' = IF j = NoJob THEN table ELSE handle_report(table, j, p, ReportOf(p))
  BY DEF IInv, Reap, TypeOK
<1>2. /\ KernelTypeOK' /\ tty' = tty /\ blocked' = blocked
      /\ ReportOf(p) \in {"exited", "stopped", "continued"}
      /\ \A q \in Pids : proc'[q] = "none" => report'[q] = "none"
  BY <1>1, WaitFacts DEF IInv, HeardOK
(* What is left to show once the table is known to be in order. *)
<1>3. ASSUME table' \in shell_jobs_t, EntriesOK', StoppedIsForeground', WaitOK',
             InFg => cur \in Listed(table') /\ table'.at[cur].pgid = NoPid
      PROVE  IInv'
  <2>1. TypeOK'
    BY <1>1, <1>2, <1>3 DEF IInv, Reap, TypeOK, PCs
  <2>2. PlaceOK'
    BY <1>1, <1>3 DEF IInv, PlaceOK, AtPrompt, InFg
  <2>3. HeardOK'
    BY <1>1, <1>2 DEF IInv, HeardOK, Blocking, Listening
  <2> QED BY <1>3, <2>1, <2>2, <2>3 DEF IInv
<1>4. CASE j = NoJob
  <2>1. table' = table
    BY <1>1, <1>4
  <2>2. EntriesOK' /\ StoppedIsForeground'
    BY <1>1, <2>1, SameTable DEF IInv
  <2>3. WaitOK'
    BY <1>1, <1>2, <2>1 DEF IInv, WaitOK, TerminalFollowsWait, WaitedJobStaysListed
  <2>4. InFg => cur \in Listed(table') /\ table'.at[cur].pgid = NoPid
    BY <2>1 DEF IInv, PlaceOK
  <2> QED BY <1>3, <2>1, <2>2, <2>3, <2>4, TableFacts
<1>5. CASE j # NoJob
  <2>1. j \in Listed(table) /\ table.at[j].process[p] # "absent"
    BY <1>5, FindProcessFacts, TableFacts
  <2>2. table.at[j].pgid # NoPid
    BY <2>1 DEF IInv, EntriesOK, ProcessesOf
  <2>3. table' = handle_report(table, j, p, ReportOf(p))
    BY <1>1, <1>5
  <2>4. wait # NoJob => wait \in Listed(table) /\ ~table.at[wait].is_background
                        /\ wait \in Jobs
    BY TableFacts DEF IInv, WaitOK, WaitedJobStaysListed
  <2>5. table.at[j].state = "stopped" => ~table.at[j].is_background
    BY <2>1 DEF IInv, StoppedIsForeground
  <2>6. InFg => cur \in Listed(table) /\ table.at[cur].pgid = NoPid /\ cur # j
    BY <2>2 DEF IInv, PlaceOK
  <2> HIDE DEF j
  <2>7. /\ table' \in shell_jobs_t
        /\ NoDuplicates(table')
        /\ \A i \in Jobs \ {j} : table'.at[i] = table.at[i]
        /\ \/ /\ Listed(table') = Listed(table)
              /\ SameGroup(table, table', j)
              /\ table'.at[j].is_background = table.at[j].is_background
              /\ table'.at[j].state = "stopped" => ~table'.at[j].is_background
           \/ /\ Listed(table') = Listed(table) \ {j}
              /\ table.at[j].is_background
    BY <1>2, <2>1, <2>3, <2>5, TableFacts, HandleReportFacts
  <2>8. CASE /\ SameGroup(table, table', j)
             /\ table'.at[j].is_background = table.at[j].is_background
             /\ table'.at[j].state = "stopped" => ~table'.at[j].is_background
    <3>1. /\ EntriesOK' /\ StoppedIsForeground'
          /\ Listed(table') = Listed(table)
          /\ \A i \in Listed(table) \ {j} : table'.at[i] = table.at[i]
          /\ \A i \in Listed(table) : table'.at[i].pgid = table.at[i].pgid
      BY <1>1, <2>1, <2>8, SameGroups
    <3>2. WaitOK'
      BY <1>1, <1>2, <2>4, <2>8, <3>1
         DEF IInv, WaitOK, TerminalFollowsWait, WaitedJobStaysListed
    <3> QED BY <1>3, <2>6, <2>7, <3>1, <3>2
  <2>9. CASE Listed(table') = Listed(table) \ {j} /\ table.at[j].is_background
    <3>1. \A i \in Listed(table') : i \in Jobs \ {j} /\ table'.at[i] = table.at[i]
      BY <2>7, <2>9, TableFacts
    <3>2. EntriesOK'
      BY <1>1, <2>7, <2>9, <3>1 DEF IInv, EntriesOK, GroupsAreDistinct, ProcessesOf
    <3>3. StoppedIsForeground'
      BY <2>9, <3>1 DEF IInv, StoppedIsForeground
    <3>4. WaitOK'
      BY <1>1, <1>2, <2>4, <2>9, <3>1
         DEF IInv, WaitOK, TerminalFollowsWait, WaitedJobStaysListed
    <3> QED BY <1>3, <2>6, <2>7, <2>9, <3>1, <3>2, <3>3, <3>4
  <2> QED BY <2>7, <2>8, <2>9
<1> QED BY <1>4, <1>5

-----------------------------------------------------------------------------
LEMMA StutterKeeps ==
  ASSUME IInv, UNCHANGED vars
  PROVE  IInv'
<1>1. UNCHANGED <<proc, report, group, deaf, tstp, tty, blocked, pending>>
  BY DEF vars, kernelVars, childVars
<1>2. UNCHANGED <<pc, table, cur, left, args, saved, wait, warned>>
  BY DEF vars, shellVars
<1>3. TypeOK'
  BY <1>1, <1>2 DEF IInv, TypeOK, KernelTypeOK
<1>4. EntriesOK' /\ StoppedIsForeground'
  BY <1>2, SameTable DEF IInv
<1>5. PlaceOK' /\ WaitOK'
  BY <1>1, <1>2 DEF IInv, PlaceOK, AtPrompt, InFg, WaitOK, TerminalFollowsWait,
                    WaitedJobStaysListed
<1>6. HeardOK'
  BY <1>1, <1>2 DEF IInv, HeardOK, Blocking, Listening, ProcessesOf, Owed
<1> QED BY <1>3, <1>4, <1>5, <1>6 DEF IInv

(* Every step of the shell, of the user and of the environment keeps IInv. *)
LEMMA NextInv ==
  ASSUME IInv, [Next]_vars
  PROVE  IInv'
<1>1. CASE ShellStep
  <2>1. ASSUME NEW p \in Pids, ForkProcess(p) PROVE IInv'
    BY <2>1, ForkProcessKeeps
  <2>2. ASSUME NEW p \in Pids, Reap(p) PROVE IInv'
    BY <2>2, ReapKeeps
  <2>3. CASE LaunchBackground \/ LaunchForeground \/ LeaveRunJob
    BY <2>3, LaunchBackgroundKeeps, LaunchForegroundKeeps, LeaveRunJobKeeps
  <2>4. CASE JobFinished \/ PollReturns \/ DrainChld \/ DrainInt \/ DrainTstp
    BY <2>4, JobFinishedKeeps, PollReturnsKeeps, DrainChldKeeps, DrainIntKeeps,
       DrainTstpKeeps
  <2>5. CASE JobStopped \/ PollAgain \/ EventHook \/ ReapDone
    BY <2>5, JobStoppedKeeps, PollAgainKeeps, EventHookKeeps, ReapDoneKeeps
  <2>6. CASE AllIdsDone \/ NoSuchJob
    BY <2>6, EndBuiltinKeeps DEF AllIdsDone, NoSuchJob
  <2>7. CASE NoSuchGroup \/ Fg \/ FgBlocksSignals \/ Bg
    BY <2>7, NoSuchGroupKeeps, FgKeeps, FgBlocksSignalsKeeps, BgKeeps
  <2> QED BY <1>1, <2>1, <2>2, <2>3, <2>4, <2>5, <2>6, <2>7 DEF ShellStep
<1>2. CASE UserStep
  <2>1. ASSUME NEW j \in Jobs, NEW n \in PipelineSizes, NEW bg \in BOOLEAN,
               StartJob(j, n, bg)
        PROVE  IInv'
    BY <2>1, StartJobKeeps
  <2>2. ASSUME NEW j \in Jobs, NEW ids \in FgArgs, NEW bg \in BOOLEAN,
               StartBuiltin("fg", j, ids, bg)
        PROVE  IInv'
    <3>1. ids \in Seq(Nat)
      BY JobControlAssumption
    <3> QED BY <2>2, <3>1, StartBuiltinKeeps
  <2>3. ASSUME NEW j \in Jobs, NEW ids \in BgArgs, NEW bg \in BOOLEAN,
               StartBuiltin("bg", j, ids, bg)
        PROVE  IInv'
    <3>1. ids \in Seq(Nat)
      BY JobControlAssumption
    <3> QED BY <2>3, <3>1, StartBuiltinKeeps
  <2>4. CASE OtherLine \/ Exit \/ EndOfFile
    BY <2>4, OtherLineKeeps, ExitKeeps, EndOfFileKeeps
  <2>5. CASE KeyInt \/ KeyTstp \/ KeyTstpToForeground
    BY <2>5, KeyIntKeeps, KeyTstpKeeps, KeyTstpToForegroundKeeps
  <2> QED BY <1>2, <2>1, <2>2, <2>3, <2>4, <2>5 DEF UserStep
<1>3. CASE EnvironmentStep
  BY <1>3, ForkFailsKeeps, SignalfdFailsKeeps, ChildRunsKeeps DEF EnvironmentStep
<1>4. CASE UNCHANGED vars
  BY <1>4, StutterKeeps
<1> QED BY <1>1, <1>2, <1>3, <1>4 DEF Next

(* The invariant of the whole: what run_job, fg, bg, the reaper and the    *)
(* keyboard keep between any two steps.                                    *)
THEOREM Invariance == Spec => []IInv
<1>1. Init => IInv
  BY InitInv
<1>2. IInv /\ [Next]_vars => IInv'
  BY NextInv
<1> QED BY <1>1, <1>2, PTL DEF Spec

(* The counters never leave their width, every pointer the shell keeps is  *)
(* NULL or a job, and tcsetpgrp is only ever given a real process group.   *)
THEOREM TypeCorrect == Spec => []TypeOK
<1>1. IInv => TypeOK
  BY DEF IInv
<1> QED BY <1>1, Invariance, PTL

(* handle_foreground_execution and fg hand the terminal over and take it   *)
(* back in step with the job they wait for, however many jobs there are.   *)
THEOREM TerminalCorrect == Spec => []TerminalFollowsWait
<1>1. IInv => TerminalFollowsWait
  BY DEF IInv, WaitOK
<1> QED BY <1>1, Invariance, PTL

(* The reaper never frees the job handle_foreground_execution points to.   *)
THEOREM WaitedJobIsSafe == Spec => []WaitedJobStaysListed
<1>1. IInv => WaitedJobStaysListed
  BY DEF IInv, WaitOK
<1> QED BY <1>1, Invariance, PTL

(* jobs_remove_job, which searches by process group, always removes the    *)
(* entry its caller means.                                                 *)
THEOREM GroupsIdentifyJobs == Spec => []GroupsAreDistinct
<1>1. IInv => GroupsAreDistinct
  BY DEF IInv, EntriesOK
<1> QED BY <1>1, Invariance, PTL

(* fg may take is_background for "already running": a stopped job is never *)
(* marked background.                                                      *)
THEOREM StoppedJobsAreWoken == Spec => []StoppedIsForeground
<1>1. IInv => StoppedIsForeground
  BY DEF IInv
<1> QED BY <1>1, Invariance, PTL

(* The wait of run_job never misses a SIGCHLD: blocking it before the      *)
(* first fork is enough, whatever the children do before poll.             *)
THEOREM RunJobHearsItsChildren == Spec => []LaunchedJobIsHeard
<1>1. ASSUME IInv PROVE LaunchedJobIsHeard
  <2>1. pc = "poll" /\ wait = cur => \A p \in ProcessesOf(wait) : Owed(p) => "CHLD" \in pending
    BY <1>1 DEF IInv, HeardOK, Listening
  <2> QED BY <2>1 DEF LaunchedJobIsHeard
<1> QED BY <1>1, Invariance, PTL

-----------------------------------------------------------------------------
(* The job control implements TerminalProtocol: each of its steps is one   *)
(* step of the protocol, or leaves the terminal and the set of jobs alone. *)

(* The jobs the protocol knows, as JobProperties maps them.                *)
Known == Listed(table)

(* The group that owns the terminal names one job: the one waited for.     *)
LEMMA HolderIsWaitedFor ==
  IInv => Holder = wait
<1> SUFFICES ASSUME IInv PROVE Holder = wait
  OBVIOUS
<1>1. CASE wait = NoJob
  BY <1>1 DEF IInv, WaitOK, TerminalFollowsWait, Holder
<1>2. CASE wait # NoJob
  <2>1. /\ wait \in Listed(table) /\ tty = table.at[wait].pgid
        /\ tty \in Pids
    BY <1>2, TypeFacts DEF IInv, WaitOK, TerminalFollowsWait, WaitedJobStaysListed
  <2>2. PgidAt(table, tty) # {}
    BY <2>1 DEF PgidAt, Listed, ToSet
  <2>3. PgidAt(table, tty) \in SUBSET (DOMAIN table.jobs)
    BY DEF PgidAt
  <2>4. PICK k \in PgidAt(table, tty) : jobs_find_job_by_pgid(table, tty) = table.jobs[k]
    BY <2>2, <2>3, LastOfFacts, TableFacts DEF jobs_find_job_by_pgid
  <2>5. table.jobs[k] \in Listed(table) /\ table.at[table.jobs[k]].pgid = tty
    BY <2>3, <2>4, ListedType, TableFacts DEF PgidAt
  <2>6. table.jobs[k] = wait
    BY <2>1, <2>5, TableFacts DEF DistinctGroups
  <2> QED BY <2>1, <2>4, <2>6, Constants DEF Holder
<1> QED BY <1>1, <1>2

(* What a step of the protocol may do to the waited-for job and the list.  *)
Stays == wait' = wait /\ Listed(table') = Listed(table)
Enters == \E j \in Jobs : /\ wait = NoJob /\ wait' = wait
                          /\ j \notin Listed(table)
                          /\ Listed(table') = Listed(table) \cup {j}
HandsOver == /\ wait = NoJob /\ wait' \in Listed(table)
             /\ Listed(table') = Listed(table)
TakesBack == /\ wait # NoJob /\ wait' = NoJob
             /\ Listed(table') \in {Listed(table), Listed(table) \ {wait}}
Forgets == \E j \in Listed(table) : /\ j # wait /\ wait' = wait
                                    /\ Listed(table') = Listed(table) \ {j}
Maps == Stays \/ Enters \/ HandsOver \/ TakesBack \/ Forgets

-----------------------------------------------------------------------------
LEMMA ForkProcessMaps ==
  ASSUME IInv, NEW p \in Pids, ForkProcess(p)
  PROVE  Maps
<1> DEFINE pgid == IF table.at[cur].pgid = NoPid THEN p ELSE table.at[cur].pgid
<1>1. cur \in Jobs /\ pgid \in Pids
  BY TypeFacts DEF IInv, ForkProcess, PlaceOK
<1>2. InPlace(table, table', cur)
  BY <1>1, TableFacts, AddChildFacts DEF ForkProcess
<1> QED BY <1>2, InPlaceListed DEF ForkProcess, Maps, Stays

LEMMA ReapMaps ==
  ASSUME IInv, NEW p \in Pids, Reap(p)
  PROVE  Maps
<1> DEFINE j == jobs_find_process_by_pid(table, p)
<1>1. /\ wait' = wait
      /\ table' = IF j = NoJob THEN table ELSE handle_report(table, j, p, ReportOf(p))
      /\ ReportOf(p) \in {"exited", "stopped", "continued"}
  BY WaitFacts DEF IInv, Reap, TypeOK
<1>2. CASE j = NoJob
  BY <1>1, <1>2 DEF Maps, Stays
<1>3. CASE j # NoJob
  <2>1. j \in Listed(table) /\ table.at[j].process[p] # "absent"
    BY <1>3, FindProcessFacts, TableFacts
  <2>2. table.at[j].state = "stopped" => ~table.at[j].is_background
    BY <2>1 DEF IInv, StoppedIsForeground
  <2>3. table' = handle_report(table, j, p, ReportOf(p))
    BY <1>1, <1>3
  <2> HIDE DEF j
  <2>4. \/ Listed(table') = Listed(table)
        \/ Listed(table') = Listed(table) \ {j} /\ table.at[j].is_background
    BY <1>1, <2>1, <2>2, <2>3, TableFacts, HandleReportFacts
  <2>5. table.at[j].is_background => j # wait
    BY <2>1, TableFacts, Constants DEF IInv, WaitOK, WaitedJobStaysListed
  <2> QED BY <1>1, <2>1, <2>4, <2>5 DEF Maps, Stays, Forgets
<1> QED BY <1>2, <1>3

LEMMA FgMaps ==
  ASSUME IInv, Fg
  PROVE  Maps
<1> DEFINE j == find_target_job_fg(table, Head(args))
<1>1. j # NoJob /\ wait' = j /\ wait = NoJob
  BY DEF IInv, Fg, target, PlaceOK
<1>2. j \in Listed(table) /\ j \in Jobs
  BY <1>1, FindFgFacts, TableFacts
<1>3. \/ table' = to_foreground(table, j)
      \/ table' = resume_job(table, j, FALSE)
  BY DEF Fg, target
<1>4. InPlace(table, table', j)
  <2>1. SameGroup(table, table', j)
    BY <1>2, <1>3, FgTableFacts, ResumeJobFacts, TableFacts
  <2> QED BY <2>1 DEF SameGroup
<1> QED BY <1>1, <1>2, <1>4, InPlaceListed DEF Maps, HandsOver

LEMMA BgMaps ==
  ASSUME IInv, Bg
  PROVE  Maps
<1> DEFINE j == find_target_job_bg(table, Head(args))
<1>1. j # NoJob /\ table' = resume_job(table, j, TRUE) /\ wait' = wait
  BY DEF Bg, target
<1>2. j \in Jobs
  BY <1>1, FindBgFacts, TableFacts
<1>3. InPlace(table, table', j)
  BY <1>1, <1>2, ResumeJobFacts, TableFacts DEF SameGroup
<1> QED BY <1>1, <1>3, InPlaceListed DEF Maps, Stays

LEMMA JobFinishedMaps ==
  ASSUME IInv, JobFinished
  PROVE  Maps
<1>1. wait # NoJob /\ wait \in Listed(table) /\ wait' = NoJob
  BY DEF IInv, JobFinished, ReturnToCaller, PlaceOK, WaitOK, WaitedJobStaysListed
<1>2. Listed(table') = Listed(table) \ {wait}
  <2>1. table' = jobs_remove_job(table, table.at[wait].pgid)
    BY DEF JobFinished
  <2> QED BY <1>1, <2>1, TableFacts, RemoveJobByGroup
<1> QED BY <1>1, <1>2 DEF Maps, TakesBack

LEMMA EndBuiltinMaps ==
  ASSUME IInv, pc \in {"fg", "bg"}, EndBuiltin
  PROVE  Maps
<1>1. wait = NoJob /\ cur \in Listed(table) /\ table.at[cur].pgid = NoPid
  BY DEF IInv, PlaceOK, InFg
<1>2. Listed(table') = Listed(table) \ {cur}
  BY <1>1, TableFacts, RemoveJobByGroup DEF EndBuiltin, drop_builtin
<1>3. wait' = wait /\ cur # wait
  BY <1>1, TableFacts, Constants DEF EndBuiltin
<1> QED BY <1>1, <1>2, <1>3 DEF Maps, Forgets

LEMMA AddJobMaps ==
  ASSUME IInv, pc = "readline", NEW j \in Jobs, j \notin Listed(table),
         NEW bg \in BOOLEAN, table' = jobs_add_job(table, j, bg), wait' = wait
  PROVE  Maps
<1>1. Listed(table') = Listed(table) \cup {j}
  BY TableFacts, AddJobFacts
<1>2. wait = NoJob
  BY DEF IInv, PlaceOK
<1> QED BY <1>1, <1>2 DEF Maps, Enters

(* Every step is one of the protocol's, or changes neither variable.       *)
LEMMA NextMaps ==
  ASSUME IInv, [Next]_vars
  PROVE  Maps
<1>1. CASE ShellStep
  <2>1. ASSUME NEW p \in Pids, ForkProcess(p) PROVE Maps
    BY <2>1, ForkProcessMaps
  <2>2. ASSUME NEW p \in Pids, Reap(p) PROVE Maps
    BY <2>2, ReapMaps
  <2>3. CASE LaunchForeground
    <3>1. wait = NoJob /\ cur \in Listed(table)
      BY <2>3 DEF IInv, LaunchForeground, PlaceOK
    <3> QED BY <2>3, <3>1 DEF LaunchForeground, Maps, HandsOver
  <2>4. CASE JobStopped
    <3>1. wait # NoJob
      BY <2>4 DEF IInv, JobStopped, PlaceOK
    <3> QED BY <2>4, <3>1 DEF JobStopped, ReturnToCaller, Maps, TakesBack
  <2>5. CASE JobFinished \/ Fg \/ Bg
    BY <2>5, JobFinishedMaps, FgMaps, BgMaps
  <2>6. CASE AllIdsDone \/ NoSuchJob
    BY <2>6, EndBuiltinMaps DEF AllIdsDone, NoSuchJob
  <2>7. CASE LaunchBackground \/ LeaveRunJob \/ PollReturns \/ DrainChld
    BY <2>7 DEF LaunchBackground, LeaveRunJob, PollReturns, DrainChld, Maps, Stays
  <2>8. CASE DrainInt \/ DrainTstp \/ PollAgain \/ EventHook \/ ReapDone
    BY <2>8 DEF DrainInt, DrainTstp, PollAgain, EventHook, ReapDone, shellVars, Maps, Stays
  <2>9. CASE NoSuchGroup \/ FgBlocksSignals
    BY <2>9 DEF NoSuchGroup, FgBlocksSignals, Maps, Stays
  <2> QED BY <1>1, <2>1, <2>2, <2>3, <2>4, <2>5, <2>6, <2>7, <2>8, <2>9 DEF ShellStep
<1>2. CASE UserStep
  <2>1. ASSUME NEW j \in Jobs, NEW n, NEW bg \in BOOLEAN, StartJob(j, n, bg)
        PROVE  Maps
    BY <2>1, AddJobMaps DEF StartJob
  <2>2. ASSUME NEW name, NEW j \in Jobs, NEW ids, NEW bg \in BOOLEAN,
               StartBuiltin(name, j, ids, bg)
        PROVE  Maps
    BY <2>2, AddJobMaps DEF StartBuiltin
  <2>3. CASE OtherLine \/ Exit \/ EndOfFile \/ KeyInt \/ KeyTstp \/ KeyTstpToForeground
    BY <2>3 DEF OtherLine, Exit, EndOfFile, KeyInt, KeyTstp, KeyTstpToForeground,
               shellVars, Maps, Stays
  <2> QED BY <1>2, <2>1, <2>2, <2>3 DEF UserStep
<1>3. CASE EnvironmentStep
  BY <1>3 DEF EnvironmentStep, ForkFails, SignalfdFails, ChildRuns, shellVars, Maps, Stays
<1>4. CASE UNCHANGED vars
  BY <1>4 DEF vars, shellVars, Maps, Stays
<1> QED BY <1>1, <1>2, <1>3, <1>4 DEF Next

LEMMA StepRefines ==
  ASSUME IInv, IInv', [Next]_vars
  PROVE  [Protocol!Next]_<<Holder, Known>>
<1>1. Holder = wait /\ Holder' = wait'
  <2>1. (IInv => Holder = wait)'
    BY HolderIsWaitedFor, PTL
  <2> QED BY <2>1, HolderIsWaitedFor
<1>2. Known = Listed(table) /\ Known' = Listed(table') /\ Known \in SUBSET Jobs
  BY TableFacts DEF Known
<1>3. Maps
  BY NextMaps
<1>4. CASE Stays
  BY <1>1, <1>2, <1>4 DEF Stays
<1>5. CASE Enters
  BY <1>1, <1>2, <1>5 DEF Enters, Protocol!Next, Protocol!Enter, Holder, Known
<1>6. CASE HandsOver
  BY <1>1, <1>2, <1>6 DEF HandsOver, Protocol!Next, Protocol!HandOver, Holder, Known
<1>7. CASE TakesBack
  BY <1>1, <1>2, <1>7 DEF TakesBack, Protocol!Next, Protocol!TakeBack, Holder, Known
<1>8. CASE Forgets
  BY <1>1, <1>2, <1>8 DEF Forgets, Protocol!Next, Protocol!Forget, Holder, Known
<1> QED BY <1>3, <1>4, <1>5, <1>6, <1>7, <1>8 DEF Maps

(* run_job, fg and the reaper together hand the terminal to one known job  *)
(* at a time and take it back before anything else happens to it, whatever *)
(* the children do and however many jobs there are.                        *)
THEOREM Refinement == Spec => ImplementsProtocol
<1>1. Init => Protocol!Init
  <2>1. Init => Listed(table) = {}
    BY InitTableType DEF Init
  <2> QED BY <2>1 DEF Init, KernelInit, Protocol!Init, Holder
<1>2. IInv /\ IInv' /\ [Next]_vars => [Protocol!Next]_<<Holder, Known>>
  BY StepRefines
<1> QED BY <1>1, <1>2, Invariance, PTL
        DEF Spec, ImplementsProtocol, Protocol!Spec, Holder, Known
=============================================================================
