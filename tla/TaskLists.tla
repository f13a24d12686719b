----------------------------- MODULE TaskLists ------------------------------
(***************************************************************************)
(* The two modules that walk the kernel's lists of tasks: proc_info        *)
(* (Assignment4-1), whose file in /proc lists the processes, and           *)
(* process_tracer (Assignment2-1), which lists the kin of one.  Neither    *)
(* takes a lock.  Processes fork and exit meanwhile, and several open the  *)
(* file, read and write it, with the module's three global variables       *)
(* shared by all.                                                          *)
(*                                                                         *)
(* A list of the kernel is a ring with a head: init_task for the task      *)
(* list, children of the parent for siblings.  A task taken out of the     *)
(* task list still leads to the next one (list_del_rcu); one taken out of  *)
(* its siblings leads to itself (list_del_init).  A length counts in units *)
(* of the text.                                                            *)
(***************************************************************************)
EXTENDS Integers, Sequences, SequencesExt, FiniteSets

CONSTANTS
    N,          \* tasks 1 .. N, besides init_task 0; 1 is init
    Born,       \* the parent of each task that is there at first
    Users,      \* the processes that use the file
    buf_size, Margin, Header,
    LineSizes,  \* the lengths of a line
    Lens,       \* the lengths asked for
    Filters,    \* the numbers written
    Budgets     \* bounds: calls of the file, traces, forks, exits, loads

ASSUME SizesAssumption ==
    /\ {buf_size, Margin, Header} \subseteq Nat /\ Header + Margin < buf_size
    /\ \A n \in LineSizes : n \in 1 .. Margin

Tasks == 0 .. N
First == DOMAIN Born

(* The nodes of the rings of siblings: a task, and the head of a parent. *)
Node(p) == <<"task", p>>
Children(p) == <<"head", p>>
Nodes == {"task", "head"} \X Tasks

(* results: of the reads since the file was opened.  shared: another       *)
(* process has changed the flag since.  stay: the tasks that were there    *)
(* when the walk began and still are.  want: the number that was last      *)
(* written when the read began, Unsure if one is written meanwhile.        *)
Unsure == -2
User == [open : BOOLEAN, pc : {"idle", "print", "walk", "copy", "flag"},
         results : Seq({"table", "part", "end", "error"}), shared : BOOLEAN,
         len : Nat, pos : Tasks, offset : Nat, lines : Seq(Tasks), whole : BOOLEAN,
         all : BOOLEAN, full : BOOLEAN, stay : SUBSET Tasks, want : {-1, Unsure} \cup Nat]
Closed == [open |-> FALSE, pc |-> "idle", results |-> <<>>, shared |-> FALSE,
           len |-> 0, pos |-> 0, offset |-> 0, lines |-> <<>>, whole |-> TRUE,
           all |-> TRUE, full |-> FALSE, stay |-> {}, want |-> -1]

(* hit: the task at which the tracer is was moved or taken out. *)
Trace == [pc : {"idle", "found", "siblings", "children"}, task : Tasks, pos : Nodes,
          lines : Seq(Tasks), stay : SUBSET Tasks, hit : BOOLEAN]
NoTrace == [pc |-> "idle", task |-> 0, pos |-> Children(0), lines |-> <<>>, stay |-> {}, hit |-> FALSE]

VARIABLES
    st, parent,     \* of each task
    list, kids,     \* the task list, the children of each task
    stale,          \* where a task that was taken out of the task list leads
    module,
    oslab_is_processed, filter_pid, write_flag,
    buffers,        \* the number of buffers that are allocated
    faults,         \* the number of reads that could not copy
    request,        \* the number that was last written
    user, trace, left

tasks == <<st, parent, list, kids, stale>>
flags == <<oslab_is_processed, filter_pid, write_flag>>
vars == <<tasks, flags, module, buffers, faults, request, user, trace, left>>

Init ==
    /\ st = [p \in Tasks |-> IF p \in First THEN "live" ELSE "free"]
    /\ parent = [p \in Tasks |-> IF p \in First THEN Born[p] ELSE 0]
    /\ list = SetToSortSeq(First \ {0}, <)
    /\ kids = [p \in Tasks |-> SetToSortSeq({q \in First \ {0} : Born[q] = p}, <)]
    /\ stale = [p \in Tasks |-> 0]
    /\ module = "out"
    /\ oslab_is_processed = FALSE /\ filter_pid = -1 /\ write_flag = FALSE
    /\ buffers = 0 /\ faults = 0 /\ request = -1
    /\ user = [u \in Users |-> Closed]
    /\ trace = NoTrace
    /\ left \in Budgets

Spend(what) == left[what] > 0 /\ left' = [left EXCEPT ![what] = @ - 1]

-----------------------------------------------------------------------------
(***************************************************************************)
(* The kernel: the lists, fork, exit and the end of a task.                *)
(***************************************************************************)
Successor(seq, p, head) ==
    IF p = Last(seq) THEN head ELSE seq[(CHOOSE i \in DOMAIN seq : seq[i] = p) + 1]
Without(seq, p) == SelectSeq(seq, LAMBDA x : x # p)

(* Mutant: a task that is taken out of the task list leads to itself. *)
DeleteInit(p) == [stale EXCEPT ![p] = p]

list_del_rcu(p) == [stale EXCEPT ![p] = Successor(list, p, 0)]

next_task(p) ==
    CASE p = 0 -> IF list = <<>> THEN 0 ELSE Head(list)
      [] p # 0 /\ st[p] = "live" -> Successor(list, p, 0)
      [] OTHER -> stale[p]

(* pos->next in a ring of siblings *)
NextSibling(n) ==
    LET p == n[2]
    IN  CASE n[1] = "head" -> IF kids[p] = <<>> THEN n ELSE Node(Head(kids[p]))
          [] n[1] = "task" /\ st[p] # "live" -> n
          [] OTHER -> IF p = Last(kids[parent[p]]) THEN Children(parent[p])
                      ELSE Node(Successor(kids[parent[p]], p, 0))

copy_process(q) ==
    /\ q # 0 /\ st[q] = "live" /\ Spend("forks")
    /\ \E p \in Tasks :
          /\ st[p] = "free"
          /\ st' = [st EXCEPT ![p] = "live"]
          /\ parent' = [parent EXCEPT ![p] = q]
          /\ list' = Append(list, p)
          /\ kids' = [kids EXCEPT ![q] = Append(@, p)]
    /\ UNCHANGED <<stale, module, flags, buffers, faults, request, user, trace>>

(* The children get init as their parent, the task is taken out of the     *)
(* lists.  What the walks under way may no longer rely on is noted.        *)
Exit(q) ==
    LET moved == Range(kids[q])
        gone == moved \cup {q}
        hit == trace.pos \in {Node(p) : p \in gone} \cup {Children(q)}
    IN  /\ q > 1 /\ st[q] = "live" /\ Spend("exits")
        /\ st' = [st EXCEPT ![q] = "dead"]
        /\ parent' = [p \in Tasks |-> IF p \in moved THEN 1 ELSE parent[p]]
        /\ stale' = list_del_rcu(q)
        /\ list' = Without(list, q)
        /\ kids' = LET reparented == [kids EXCEPT ![1] = @ \o kids[q], ![q] = <<>>]
                   IN  [reparented EXCEPT ![parent[q]] = Without(@, q)]
        /\ user' = [u \in Users |-> [user[u] EXCEPT !.stay = @ \ {q}]]
        /\ trace' = [trace EXCEPT !.stay = @ \ gone,
                                  !.hit = @ \/ (trace.pc \in {"siblings", "children"} /\ hit)]
        /\ UNCHANGED <<module, flags, buffers, faults, request>>

(* Mutant: the kernel may be preempted in a walk. *)
GraceAtOnce == TRUE

(* The end of a grace period, for walks that do not sleep in a kernel that *)
(* is not preempted.                                                       *)
GracePeriod ==
    /\ \A u \in Users : user[u].pc # "walk"
    /\ trace.pc = "idle"

delayed_put_task_struct(p) ==
    /\ st[p] = "dead" /\ GracePeriod
    /\ st' = [st EXCEPT ![p] = "free"]
    /\ UNCHANGED <<parent, list, kids, stale, module, flags, buffers, faults, request, user, trace, left>>

-----------------------------------------------------------------------------
(***************************************************************************)
(* proc_info.                                                              *)
(***************************************************************************)
Active(u) == user[u].pc # "idle"
Idle(u) == module = "in" /\ user[u].open /\ ~ Active(u)

(* The other processes that have the file open see the flag change. *)
Share(u, rec) ==
    user' = [x \in Users |-> IF x = u THEN rec
                             ELSE [user[x] EXCEPT !.shared = @ \/ user[x].open]]
Update(u, rec) == user' = [user EXCEPT ![u] = rec]

oslab_init ==
    /\ module = "out" /\ Spend("loads")
    /\ module' = "in"
    /\ oslab_is_processed' = FALSE /\ filter_pid' = -1 /\ write_flag' = FALSE /\ request' = -1
    /\ UNCHANGED <<tasks, buffers, faults, user, trace>>

(* remove_proc_entry waits for the calls under way; from then on the files *)
(* that are open are of no use.                                            *)
oslab_exit ==
    /\ module = "in" /\ \A u \in Users : ~ Active(u)
    /\ Spend("loads")
    /\ module' = "out"
    /\ user' = [u \in Users |-> Closed]
    /\ UNCHANGED <<tasks, flags, buffers, faults, request, trace>>

oslab_open(u) ==
    /\ module = "in" /\ ~ user[u].open /\ Spend("calls")
    /\ oslab_is_processed' = FALSE
    /\ Share(u, [Closed EXCEPT !.open = TRUE])
    /\ UNCHANGED <<tasks, module, filter_pid, write_flag, buffers, faults, request, trace>>

Close(u) ==
    /\ Idle(u)
    /\ Update(u, Closed)
    /\ UNCHANGED <<tasks, module, flags, buffers, faults, request, trace, left>>

Result(u, r) == [Closed EXCEPT !.open = TRUE, !.shared = user[u].shared,
                               !.results = Append(user[u].results, r)]

(* oslab_read, to the allocation of the buffer, which may fail *)
oslab_read(u) ==
    /\ Idle(u) /\ Spend("calls")
    /\ \/ /\ oslab_is_processed
          /\ Update(u, Result(u, "end"))
          /\ UNCHANGED buffers
       \/ /\ ~ oslab_is_processed
          /\ Update(u, Result(u, "error"))
          /\ UNCHANGED buffers
       \/ /\ ~ oslab_is_processed
          /\ buffers' = buffers + 1
          /\ \E n \in Lens :
                Update(u, [user[u] EXCEPT !.pc = "print", !.len = n,
                                          !.want = IF \E x \in Users : user[x].pc = "flag"
                                                   THEN Unsure ELSE request])
    /\ UNCHANGED <<tasks, module, flags, faults, request, trace>>

(* The header, and the choice between the loops. *)
PrintHeader(u) ==
    /\ user[u].pc = "print"
    /\ Update(u, [user[u] EXCEPT !.pc = "walk", !.offset = Header, !.lines = <<>>,
                     !.whole = TRUE, !.full = FALSE, !.pos = next_task(0),
                     !.all = ~ write_flag \/ filter_pid = -1, !.stay = Range(list)])
    /\ UNCHANGED <<tasks, module, flags, buffers, faults, request, trace, left>>

(* append_info for a line of n units: scnprintf cuts it to what is left. *)
append_info(rec, p, n) ==
    LET free == buf_size - rec.offset - 1
    IN  [rec EXCEPT !.lines = Append(@, p), !.whole = @ /\ n <= free,
                    !.offset = @ + IF n <= free THEN n ELSE free]

(* Mutant: the loop stops when nothing is left. *)
FullAtEnd(offset) == offset >= buf_size - 1

BufferFull(offset) == offset >= buf_size - Margin

(* One task of the loop over all tasks. *)
WalkAll(u) ==
    /\ user[u].pc = "walk" /\ user[u].all
    /\ IF user[u].pos = 0
       THEN Update(u, [user[u] EXCEPT !.pc = "copy"])
       ELSE \E n \in LineSizes :
              LET rec == append_info(user[u], user[u].pos, n)
              IN  Update(u, IF BufferFull(rec.offset)
                            THEN [rec EXCEPT !.pc = "copy", !.full = TRUE]
                            ELSE [rec EXCEPT !.pos = next_task(@)])
    /\ UNCHANGED <<tasks, module, flags, buffers, faults, request, trace, left>>

(* One task of the loop for one process, which reads filter_pid anew. *)
WalkFor(u) ==
    /\ user[u].pc = "walk" /\ ~ user[u].all
    /\ CASE user[u].pos = 0 -> Update(u, [user[u] EXCEPT !.pc = "copy"])
         [] user[u].pos # 0 /\ user[u].pos = filter_pid ->
              \E n \in LineSizes :
                 Update(u, [append_info(user[u], filter_pid, n) EXCEPT !.pc = "copy"])
         [] OTHER -> Update(u, [user[u] EXCEPT !.pos = next_task(@)])
    /\ UNCHANGED <<tasks, module, flags, buffers, faults, request, trace, left>>

(* Mutant: the flag is not set. *)
ProcessedNot(flag) == flag

Processed(flag) == TRUE

(* Mutants: the buffer is kept; it is freed twice. *)
Kept(n) == n
FreedTwice(n) == n - 2

kfree(n) == n - 1

copy_to_user(u) ==
    /\ user[u].pc = "copy"
    /\ oslab_is_processed' = Processed(oslab_is_processed)
    /\ buffers' = kfree(buffers)
    /\ Share(u, Result(u, IF user[u].offset > user[u].len THEN "part" ELSE "table"))
    /\ UNCHANGED <<tasks, module, filter_pid, write_flag, faults, request, trace, left>>

(* The buffer is not freed. *)
CopyFails(u) ==
    /\ user[u].pc = "copy"
    /\ faults' = faults + 1
    /\ Update(u, Result(u, "error"))
    /\ UNCHANGED <<tasks, module, flags, buffers, request, trace, left>>

(* oslab_write: what is not a number is written as -1.  (The text is       *)
(* shorter than the buffer for it; one that cannot be copied is not        *)
(* looked at.)                                                             *)
oslab_write(u) ==
    /\ Idle(u) /\ Spend("calls")
    /\ \E f \in Filters :
          /\ filter_pid' = f
          /\ request' = f
    /\ user' = [x \in Users |-> IF x = u THEN [user[u] EXCEPT !.pc = "flag"]
                                ELSE [user[x] EXCEPT !.want = Unsure]]
    /\ UNCHANGED <<tasks, module, oslab_is_processed, write_flag, buffers, faults, trace>>

(* Mutant: the flag is not set. *)
Unflagged(flag) == flag

Flagged(flag) == TRUE

SetWriteFlag(u) ==
    /\ user[u].pc = "flag"
    /\ write_flag' = Flagged(write_flag)
    /\ Update(u, [user[u] EXCEPT !.pc = "idle"])
    /\ UNCHANGED <<tasks, module, oslab_is_processed, filter_pid, buffers, faults, request,
                   trace, left>>

-----------------------------------------------------------------------------
(***************************************************************************)
(* process_tracer.                                                         *)
(***************************************************************************)
(* Mutant: the first one is skipped. *)
FirstSkipped(head) == NextSibling(NextSibling(head))

FirstOf(head) == NextSibling(head)

(* pid_task finds the task, which may exit before its lists are read. *)
process_tracer(p) ==
    /\ trace.pc = "idle" /\ p # 0 /\ st[p] = "live" /\ Spend("traces")
    /\ trace' = [NoTrace EXCEPT !.pc = "found", !.task = p]
    /\ UNCHANGED <<tasks, flags, module, buffers, faults, request, user>>

FirstSibling ==
    LET head == parent[trace.task]
    IN  /\ trace.pc = "found"
        /\ trace' = [trace EXCEPT !.pc = "siblings", !.pos = FirstOf(Children(head)),
                                  !.stay = Range(kids[head]) \ {trace.task}]
        /\ UNCHANGED <<tasks, flags, module, buffers, faults, request, user, left>>

(* What is listed is of no interest once the walk is in another list, or   *)
(* has more lines than there are tasks.                                    *)
Line(n) == IF trace.hit \/ n = Node(trace.task) \/ Len(trace.lines) > N THEN <<>> ELSE <<n[2]>>

(* Mutant: the list of the task's own children. *)
SiblingHeadOwn == Children(trace.task)

(* The head, which list_for_each reads anew every time. *)
SiblingHead == Children(parent[trace.task])

ListSiblings ==
    /\ trace.pc = "siblings"
    /\ trace' = IF trace.pos = SiblingHead
                THEN [trace EXCEPT !.pc = "children", !.lines = <<>>,
                                   !.pos = FirstOf(Children(trace.task)),
                                   !.stay = Range(kids[trace.task])]
                ELSE [trace EXCEPT !.lines = @ \o Line(trace.pos), !.pos = NextSibling(@)]
    /\ UNCHANGED <<tasks, flags, module, buffers, faults, request, user, left>>

ListChildren ==
    /\ trace.pc = "children"
    /\ trace' = IF trace.pos = Children(trace.task) THEN NoTrace
                ELSE [trace EXCEPT !.lines = @ \o Line(trace.pos), !.pos = NextSibling(@)]
    /\ UNCHANGED <<tasks, flags, module, buffers, faults, request, user, left>>

-----------------------------------------------------------------------------
UserStep(u) ==
    \/ PrintHeader(u) \/ WalkAll(u) \/ WalkFor(u) \/ copy_to_user(u) \/ CopyFails(u)
    \/ SetWriteFlag(u)

TraceStep == FirstSibling \/ ListSiblings \/ ListChildren

Next ==
    \/ \E p \in Tasks : copy_process(p) \/ Exit(p) \/ delayed_put_task_struct(p)
    \/ oslab_init \/ oslab_exit
    \/ \E u \in Users : oslab_open(u) \/ Close(u) \/ oslab_read(u) \/ oslab_write(u) \/ UserStep(u)
    \/ \E p \in Tasks : process_tracer(p)
    \/ TraceStep

Spec == Init /\ [][Next]_vars

(* A call that has begun goes on. *)
FairSpec == Spec /\ (\A u \in Users : WF_vars(UserStep(u))) /\ WF_vars(TraceStep)

-----------------------------------------------------------------------------
(***************************************************************************)
(* Properties.                                                             *)
(***************************************************************************)

(* The state is well-formed; the text never leaves the buffer. *)
TypeOK ==
    /\ st \in [Tasks -> {"live", "dead", "free"}] /\ parent \in [Tasks -> Tasks]
    /\ stale \in [Tasks -> Tasks]
    /\ user \in [Users -> User] /\ \A u \in Users : user[u].offset < buf_size
    /\ trace \in Trace /\ buffers \in Nat /\ filter_pid \in {-1} \cup Nat

(* A walk is never at a task whose memory was freed, in a kernel that is   *)
(* not preempted: oslab_read and process_tracer take no lock.  No line is  *)
(* cut: the margin at which oslab_read stops has room for one more line.   *)
(* The buffers that are allocated are those of the reads under way, and    *)
(* one for every read that could not copy, also after the module is gone.  *)
MemorySound ==
    /\ TypeOK
    /\ \A u \in Users : user[u].whole /\ (user[u].pc = "walk" => st[user[u].pos] # "free")
    /\ trace.pc # "idle" => st[trace.task] # "free" /\ st[trace.pos[2]] # "free"
    /\ buffers = faults + Cardinality({u \in Users : user[u].pc \in {"print", "walk", "copy"}})

(* oslab_read lists no process twice and, unless the buffer is full, every *)
(* process that exists from the beginning to the end of the read, whatever *)
(* other ones exit and fork meanwhile.  After a number was written, and if *)
(* none is being written, it lists that process only.  While no other      *)
(* process opens the file or ends a read of it, a session gets the table   *)
(* once, in one read, and then the end of the file.                        *)
ReadExact ==
    \A u \in Users :
        LET rec    == user[u]
            listed == Range(rec.lines)
            got    == SelectSeq(rec.results, LAMBDA r : r # "error")
        IN  /\ rec.pc = "copy" =>
                  /\ IsInjective(rec.lines)
                  /\ rec.want = -1 => rec.stay \subseteq listed \/ rec.full
                  /\ rec.want \in Nat =>
                        /\ listed \subseteq {rec.want}
                        /\ rec.stay \cap {rec.want} \subseteq listed
            /\ ~ rec.shared => \A i \in DOMAIN got : got[i] = "end" <=> i > 1

(* process_tracer lists every sibling, and every child, that stays one     *)
(* while the list is printed, and none twice, unless the very task that it *)
(* is at exits or gets another parent.                                     *)
KinListed ==
    [][trace.pc # "idle" /\ trace'.pc # trace.pc /\ ~ trace.hit =>
          IsInjective(trace.lines) /\ trace.stay \subseteq Range(trace.lines)]_vars

(* A read of the file ends, whatever processes exit at whichever point of  *)
(* its walk.  process_tracer returns, unless the very task that it is at   *)
(* exits or gets another parent: then it may walk for ever.                *)
WalksEnd ==
    /\ []<>(\A u \in Users : ~ Active(u))
    /\ []<>(trace.pc = "idle" \/ trace.hit)

=============================================================================
