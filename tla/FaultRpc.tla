------------------------------ MODULE FaultRpc ------------------------------
(***************************************************************************)
(* Remote procedure call by page fault (userfaultfd/edge, edge_client and  *)
(* edge_server in C++, edge_client in Rust).  A caller writes a slot       *)
(* number and an argument into the request buffer and touches the invoke   *)
(* page.  If the page is missing the kernel suspends the caller and queues *)
(* a fault; the fault handler thread reads it, calls the registered        *)
(* function, writes the response buffer and copies a page in, which        *)
(* resumes every thread that waits for it.  The caller then reads the      *)
(* response.  All buffers are plain shared memory: every load and store is *)
(* a step of its own.  Before that, main maps the buffers, makes the       *)
(* userfaultfd, fills the function table and starts the handler; any of    *)
(* these can fail.                                                         *)
(***************************************************************************)
EXTENDS Integers, Sequences

CONSTANTS Callers,        \* threads that call edge_rpc::fib
          Arg,            \* the argument of every call (fib_n)
          MaxCalls,       \* bound on the calls of one caller
          U64,            \* the number of values of a uint64_t
          MaxFns,         \* max_registrations: 1000 in the clients, 100 in the server
          VolatilePoke    \* the build of the Rust client keeps the load

ASSUME RpcAssumption ==
    /\ Arg \in Nat /\ MaxCalls \in Nat \ {0} /\ U64 \in Nat \ {0}
    /\ VolatilePoke \in BOOLEAN

EDGE_FIB_NUM == 42
ASSUME TableAssumption == MaxFns \in Nat /\ MaxFns > EDGE_FIB_NUM
NoSlot == 0                       \* what a fresh anonymous page holds

VARIABLES lang,                   \* the program is the "C++" or the "Rust" one
          threads,                \* the callers this program has
          registered,             \* it calls set_handler(EDGE_FIB_NUM)
          setup,                  \* how far main has come
          watched,                \* UFFDIO_REGISTER succeeded on the invoke page
          fns,                    \* the slots of the table that hold a function
          present,                \* the invoke page is mapped
          slot, arg, response,    \* the request and response buffers
          pending,                \* faults queued on the userfaultfd
          at, calls, answer,      \* per caller: program point, calls made, result
          handler, fn_arg         \* the handler thread: program point, arg0

buffers == <<slot, arg, response>>
callers == <<at, calls, answer>>
program == <<lang, threads, registered, watched, fns>>
rpc == <<present, buffers, pending, callers, fn_arg>>
vars == <<program, setup, rpc, handler>>

Init ==
    \* A client has one caller and registers the function.  The C++ server has
    \* one per connection and does not; TRUE is the server with that call added.
    /\ \/ lang = "C++" /\ threads = Callers /\ registered \in BOOLEAN
       \/ lang \in {"C++", "Rust"} /\ registered = TRUE /\ \E c \in Callers : threads = {c}
    /\ setup = "mmap" /\ watched = FALSE /\ fns = {}
    /\ present = FALSE
    /\ slot = NoSlot /\ arg = 0 /\ response = 0
    /\ pending = <<>>
    /\ at = [c \in Callers |-> "idle"]
    /\ calls = [c \in Callers |-> 0]
    /\ answer = [c \in Callers |-> 0]
    /\ handler = "none" /\ fn_arg = 0

\* fib_kernel: (n1, n2) starts at (-1, 1) and is stepped n + 1 times.
Pairs[i \in Nat] ==
    IF i = 0 THEN <<U64 - 1, 1 % U64>>
             ELSE LET p == Pairs[i - 1] IN <<p[2], (p[1] + p[2]) % U64>>
fib_kernel(n) == Pairs[n + 1][2]

-----------------------------------------------------------------------------
(* Set-up, in main *)

\* Rust returns the error.  C++ does not look at mmap's result: it dies at the
\* first access, before a call can return.
FaultHandlerMemory_new ==
    /\ setup = "mmap" /\ setup' \in {"userfaultfd", "exit"}
    /\ UNCHANGED <<program, rpc, handler>>

\* The descriptor and its API handshake; failure is noticed in both languages.
CreateUffd ==
    /\ setup = "userfaultfd" /\ setup' \in {"register", "exit"}
    /\ UNCHANGED <<program, rpc, handler>>

\* Rust's `?` ends the program when the registration fails.  register_mem
\* tests `ioctl(...) < 0`, which is 0 or 1, for being negative: C++ goes on.
\* Mutant: Rust does not look at the result either.
register_unchecked ==
    /\ setup = "register" /\ setup' = "set_handler"
    /\ watched' \in BOOLEAN
    /\ UNCHANGED <<lang, threads, registered, fns, rpc, handler>>
register ==
    /\ setup = "register"
    /\ watched' \in BOOLEAN
    /\ setup' = IF lang = "Rust" /\ ~watched' THEN "exit" ELSE "set_handler"
    /\ UNCHANGED <<lang, threads, registered, fns, rpc, handler>>

\* The check of set_handler; C++ lets the slot one past the end pass.
OutOfRange(s) == IF lang = "Rust" THEN s >= MaxFns ELSE s > MaxFns

set_handler ==
    /\ setup = "set_handler"
    /\ IF registered /\ OutOfRange(EDGE_FIB_NUM)
       THEN setup' = "exit" /\ UNCHANGED fns
       ELSE setup' = "spawn" /\ fns' = IF registered THEN fns \cup {EDGE_FIB_NUM} ELSE fns
    /\ UNCHANGED <<lang, threads, registered, watched, rpc, handler>>

Spawn ==
    /\ setup = "spawn" /\ setup' = "up"
    /\ handler' = "start"
    /\ UNCHANGED <<program, rpc>>

Setup == FaultHandlerMemory_new \/ CreateUffd \/ register \/ set_handler \/ Spawn

-----------------------------------------------------------------------------
(* A caller: edge_rpc::fib *)

Goto(c, p) == at' = [at EXCEPT ![c] = p]

\* PANIC exits the C++ process; in Rust only the handler thread dies.
Running == setup = "up" /\ (lang = "C++" => handler # "panic")

\* The Rust client makes one call; in the server a thread stands for the
\* connections it handles one after the other.
MayCall(c) == at[c] = "idle" /\ calls[c] < IF lang = "Rust" THEN 1 ELSE MaxCalls

\* mremap moves the invoke page away and munmap discards it, or mremap fails
\* and the program exits.  Only the C++ client's main, its one caller, does so.
invalidate(c) ==
    /\ lang = "C++" /\ threads = {c} /\ Running /\ MayCall(c)
    /\ \/ present' = FALSE /\ UNCHANGED setup
       \/ setup' = "exit" /\ UNCHANGED present
    /\ UNCHANGED <<program, buffers, pending, callers, handler, fn_arg>>

\* Mutant: the slot number is not stored.
SlotWord_lost == slot
SlotWord == EDGE_FIB_NUM

StoreSlot(c) ==
    /\ Running /\ MayCall(c)
    /\ slot' = SlotWord
    /\ calls' = [calls EXCEPT ![c] = @ + 1]
    /\ Goto(c, "arg")
    /\ UNCHANGED <<program, setup, present, arg, response, pending, answer, handler, fn_arg>>

StoreArg(c) ==
    /\ Running
    /\ at[c] = "arg"
    /\ arg' = Arg
    /\ Goto(c, "poke")
    /\ UNCHANGED <<program, setup, present, slot, response, pending, calls, answer,
                   handler, fn_arg>>

\* The load completes if the page is there, else it faults; on a page that is
\* not watched the kernel maps a page of zeroes.  In C++ the load is volatile;
\* in Rust its result is unused and an optimised build may drop it.
poke(c) ==
    /\ Running
    /\ at[c] = "poke"
    /\ \E touched \in {TRUE, lang = "C++" \/ VolatilePoke} :
          IF touched /\ watched /\ ~present
          THEN Goto(c, "suspended") /\ pending' = Append(pending, c) /\ UNCHANGED present
          ELSE Goto(c, "result") /\ present' = (present \/ touched) /\ UNCHANGED pending
    /\ UNCHANGED <<program, setup, buffers, calls, answer, handler, fn_arg>>

LoadResult(c) ==
    /\ Running
    /\ at[c] = "result"
    /\ answer' = [answer EXCEPT ![c] = response]
    /\ Goto(c, "returned")
    /\ UNCHANGED <<program, setup, present, buffers, pending, calls, handler, fn_arg>>

Return(c) ==
    /\ Running
    /\ at[c] = "returned"
    /\ Goto(c, "idle")
    /\ UNCHANGED <<program, setup, present, buffers, pending, calls, answer, handler, fn_arg>>

-----------------------------------------------------------------------------
(* The handler: fault_handler_thread *)

\* The page to copy is mapped.  If that fails the Rust thread panics; in C++ it
\* goes unnoticed and the process panics on the first copy.
StartHandler ==
    /\ handler = "start" /\ handler' \in {"poll", "failed"}
    /\ UNCHANGED <<program, setup, rpc>>

\* poll, then read one fault from the userfaultfd
ReadFault ==
    /\ handler = "poll"
    /\ pending # <<>>
    /\ pending' = Tail(pending)
    /\ handler' = "lookup"
    /\ UNCHANGED <<program, setup, present, buffers, callers, fn_arg>>

\* The table has a function at input[0].
\* Mutant: a missing function is not noticed.
HasFunction_unchecked == TRUE
HasFunction == slot \in fns

handler_at ==
    /\ handler = "lookup"
    /\ handler' = IF HasFunction THEN "load" ELSE "panic"
    /\ UNCHANGED <<program, setup, rpc>>

\* arg0 is input[1].  Mutant: input[0].
ArgWord_slot == slot
ArgWord == arg

LoadArg ==
    /\ handler = "load"
    /\ fn_arg' = ArgWord
    /\ handler' = "call"
    /\ UNCHANGED <<program, setup, present, buffers, pending, callers>>

\* The call and the store of its result.
CallFn ==
    /\ handler = "call"
    /\ response' = fib_kernel(fn_arg)
    /\ handler' = "respond"
    /\ UNCHANGED <<program, setup, present, slot, arg, pending, callers, fn_arg>>

\* Every thread that waits for the page resumes and repeats its load; a fault
\* of theirs that was not read yet is gone.
Resume ==
    /\ at' = [c \in Callers |-> IF at[c] = "suspended" THEN "poke" ELSE at[c]]
    /\ pending' = <<>>

\* Mutant: UFFDIO_COPY_MODE_DONTWAKE.
respond_with_dontwake ==
    /\ handler = "respond"
    /\ present' = TRUE /\ handler' = "poll"
    /\ UNCHANGED <<program, setup, buffers, pending, callers, fn_arg>>
\* UFFDIO_COPY; it fails with EEXIST, and the handler panics, if the page is
\* already there.
respond_with ==
    /\ handler = "respond"
    /\ IF present
       THEN handler' = "panic" /\ UNCHANGED <<present, at, pending>>
       ELSE handler' = "poll" /\ present' = TRUE /\ Resume
    /\ UNCHANGED <<program, setup, buffers, calls, answer, fn_arg>>

-----------------------------------------------------------------------------
Caller(c) ==
    StoreSlot(c) \/ StoreArg(c) \/ poke(c) \/ LoadResult(c) \/ Return(c)

Handler ==
    /\ setup = "up"
    /\ StartHandler \/ ReadFault \/ handler_at \/ LoadArg \/ CallFn \/ respond_with

Next == Setup \/ Handler \/ \E c \in threads : Caller(c) \/ invalidate(c)

\* Threads that can run are scheduled.
Fairness == WF_vars(Handler) /\ \A c \in Callers : WF_vars(c \in threads /\ Caller(c))

Spec == Init /\ [][Next]_vars /\ Fairness

-----------------------------------------------------------------------------
(* Properties *)

TypeOK ==
    /\ lang \in {"C++", "Rust"} /\ threads \subseteq Callers
    /\ setup \in {"mmap", "userfaultfd", "register", "set_handler", "spawn", "up", "exit"}
    /\ {registered, watched, present} \subseteq BOOLEAN
    /\ fns \subseteq 0 .. MaxFns - 1
    /\ slot \in {NoSlot, EDGE_FIB_NUM} /\ arg \in {0, Arg}
    /\ response \in 0 .. U64 - 1
    /\ pending \in Seq(Callers)
    /\ at \in [Callers -> {"idle", "arg", "poke", "suspended", "result", "returned"}]
    /\ calls \in [Callers -> 0 .. MaxCalls]
    /\ answer \in [Callers -> 0 .. U64 - 1]
    /\ handler \in {"none", "start", "failed", "poll", "lookup", "load", "call",
                    "respond", "panic"}
    /\ fn_arg \in {0, Arg}

\* The Fibonacci numbers, by definition
Fib[n \in Nat] == IF n < 2 THEN n ELSE Fib[n - 1] + Fib[n - 2]

\* A call returns fib(n), whether it faulted, shared another thread's fault or
\* found the page of an earlier call: the response is stored before the page
\* that lets callers pass is there.  The one exception is a C++ program whose
\* registration of the page failed: no fault ever reaches its handler.  The
\* Rust client does not get as far as a call then.
AnswerCorrect ==
    (lang = "C++" => watched)
        => \A c \in Callers : at[c] = "returned" => answer[c] = Fib[Arg] % U64

\* A suspended caller's fault is queued or the handler is working on one, so no
\* wakeup is lost; and the page it waits for is still missing.
NoLostFault ==
    \A c \in Callers :
        at[c] = "suspended"
            => /\ ~present
               /\ \/ handler # "poll"
                  \/ \E i \in DOMAIN pending : pending[i] = c

\* With the function registered the handler never dies: no fault is answered
\* twice (EEXIST) and no fault is read before the slot number is stored.
HandlerSurvives == registered => handler # "panic"

\* Without it, no call ever returns a made-up answer from a fresh buffer.
NoAnswerUnregistered ==
    ~registered /\ watched => \A c \in Callers : at[c] \notin {"result", "returned"}

\* Every call returns if the function is registered, unless the handler could
\* not map the page it copies: then a suspended caller is never resumed.
CallReturns ==
    \A c \in Callers :
        registered /\ at[c] = "poke" ~> at[c] = "returned" \/ handler = "failed"
=============================================================================
