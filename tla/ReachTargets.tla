---------------------------- MODULE ReachTargets -----------------------------
(***************************************************************************)
(* How the hook targets of the reach harness are found                     *)
(* (tools/fuzz_reach_targets.py) and how a hit is read (fuzz_entry.py).    *)
(* Arm.run executes the firmware's own decode of a request and watches     *)
(* every instruction; chain joins such runs; derive accepts a table of     *)
(* entries or refuses it.  The firmware is any: which instruction comes    *)
(* next is its choice, and code addresses are small numbers.               *)
(***************************************************************************)
EXTENDS Integers, FiniteSets, Sequences, SequencesExt

CONSTANTS
  MaxLevels,     \* functions followed in one run, 4 in the code
  TraceLength,   \* bounds a decode
  Addresses      \* where arms may lie

ASSUME ReachAssumption ==
  MaxLevels \in Nat \ {0} /\ TraceLength \in Nat /\ Addresses \subseteq Nat \ {0}

VARIABLES
  code,    \* what is run: "none", QMK's hook ("qmk") or the standard switch ("std")
  trace,   \* the instructions executed outside skipped code
  place,   \* where the firmware is: "body", in a "callee", in a case "helper"
  seen,    \* what the observer has made of it
  table    \* the chains of two entries and the arm of a request not found

reachVars == <<code, trace, place, seen, table>>

None == 0

\* The level that is run first has no arm and no decision yet.
Start == [levels |-> <<[arm |-> None, dec |-> FALSE]>>, stop |-> "none",
          skipping |-> "nothing"]

NoTable == [chain |-> <<>>, missing |-> None]

Idle == code = "none" /\ table = NoTable

ReachInit ==
  /\ code = "none" /\ trace = <<>> /\ place = "body" /\ seen = Start
  /\ table = NoTable

-----------------------------------------------------------------------------
(* Arm.run, the observer.                                                  *)

\* What an instruction is to the observer: a conditional branch, a computed
\* jump, the call of a case helper, a store outside the stack, a return, a
\* call that is indirect or passes usbp, the call of get_descriptor_cb, any
\* other call, or none of these.
Ops == {"plain", "cond", "jump", "case", "store", "return", "follow",
        "descriptor", "call"}
Calls == {"follow", "descriptor", "call"}

\* The first instruction after a decision is the level's arm, until the next.
Marked(st, at) ==
  LET k == Len(st.levels)
  IN IF st.levels[k].dec
     THEN [st EXCEPT !.levels[k] = [arm |-> at, dec |-> FALSE]]
     ELSE st

Decides(st) == [st EXCEPT !.levels[Len(st.levels)].dec = TRUE]

Call(st, op) ==
  IF op = "descriptor" \/ code = "std"
  THEN [st EXCEPT !.stop = "call"]
  ELSE IF op = "follow" /\ Len(st.levels) < MaxLevels
       THEN [st EXCEPT !.levels = Append(@, [arm |-> None, dec |-> FALSE])]
       ELSE [st EXCEPT !.skipping = "callee"]

(* Mutant: what a callee or a helper executes is looked at. *)
NotSkipped(where) == FALSE

Skipped(where) == seen.skipping = where

\* The code and the memory hook of one instruction, at its place of the trace.
Observe(op, where, at) ==
  LET now == [Marked(seen, at) EXCEPT !.skipping = "nothing"]
  IN IF Skipped(where) THEN seen
     ELSE IF op \in {"cond", "jump"} THEN Decides(now)
     ELSE IF op = "case" THEN [Decides(now) EXCEPT !.skipping = "helper"]
     ELSE IF op \in Calls THEN Call(now, op)
     ELSE IF op = "return" THEN [now EXCEPT !.stop = "ret"]
     ELSE IF op = "store" THEN [now EXCEPT !.stop = "store"]
     ELSE now

-----------------------------------------------------------------------------
(* Arm.run, the firmware that is watched.                                  *)

Followed(t) == Cardinality({i \in DOMAIN t : t[i] = "follow"})

BeginRun(c) ==
  /\ Idle
  /\ code' = c
  /\ UNCHANGED <<trace, place, seen, table>>

\* A call that is not followed executes its whole callee; a case helper picks
\* an address and comes back to it.
Execute(op) ==
  /\ code # "none" /\ place = "body" /\ seen.stop = "none"
  /\ Len(trace) < TraceLength \/ op = "return"
  /\ trace' = Append(trace, op)
  /\ place' = IF op = "case" THEN "helper"
              ELSE IF op = "call" \/ (op = "follow" /\ Followed(trace) >= MaxLevels - 1)
                   THEN "callee"
                   ELSE "body"
  /\ seen' = Observe(op, "body", Len(trace) + 1)
  /\ UNCHANGED <<code, table>>

\* One instruction of skipped code; a case helper stores nothing.
Inside(op) ==
  /\ place # "body" /\ seen.stop = "none"
  /\ op = "store" => place = "callee"
  /\ seen' = Observe(op, place, None)
  /\ place' \in IF op = "return" THEN {"body"} ELSE {place}
  /\ UNCHANGED <<code, trace, table>>

EndRun ==
  /\ seen.stop # "none"
  /\ code' = "none" /\ trace' = <<>> /\ place' = "body" /\ seen' = Start
  /\ UNCHANGED table

-----------------------------------------------------------------------------
(* chain and derive.                                                       *)

\* What the runs of one request may come to: the arms of the hook's levels,
\* and how it ends; the arms of the standard switch, of the descriptor
\* function and of the callback for OUT data, where they come to be run.
Requests ==
  [hook : SeqOf(Addresses \cup {None}, 2) \ {<<>>},
   ends : {"descriptor", "zero", "otherwise"},
   std : Addresses, stdAsks : BOOLEAN, gud : Addresses,
   out : BOOLEAN, cb : Addresses]

\* Only a hook that returns zero by itself has declined.
Declined(q) == q.ends = "zero" /\ Len(q.hook) = 1

\* The levels of the hook in order, those without a decision left out.
Decided(hook) ==
  LET arm(k) == IF hook[k] = None THEN <<>> ELSE <<hook[k]>>
  IN IF Len(hook) = 1 THEN arm(1) ELSE arm(1) \o arm(2)

\* chain.  The standard switch, the descriptor function and the callback each
\* come to a decision.
Chain(q) ==
  LET after == IF q.ends = "descriptor" THEN <<q.gud>>
               ELSE IF ~Declined(q) THEN <<>>
               ELSE IF q.stdAsks THEN <<q.std, q.gud>> ELSE <<q.std>>
      out == IF q.out /\ ~Declined(q) THEN <<q.cb>> ELSE <<>>
  IN Decided(q.hook) \o after \o out

\* A request without any decision is refused by chain.
Chains == {Chain(q) : q \in Requests} \ {<<>>}

Own(c) == Last(c)
Route(c) == ToSet(Front(c))

OwnArms(t) == {Own(t.chain[e]) : e \in DOMAIN t.chain}

(* Mutant: an entry may be routed through another's handler. *)
AcceptedAnyRoute(t) == t.missing \notin OwnArms(t)

\* derive: no own handler is an arm of a request that is not found, and no
\* route leads through an own handler.
Accepted(t) ==
  /\ t.missing \notin OwnArms(t)
  /\ \A e \in DOMAIN t.chain : Route(t.chain[e]) \cap OwnArms(t) = {}

Tables == {t \in [chain : [1 .. 2 -> Chains], missing : Addresses] : Accepted(t)}

\* Two entries: the one a boot is about and any other.
Derive ==
  /\ Idle
  /\ table' \in Tables
  /\ UNCHANGED <<code, trace, place, seen>>

Written ==
  /\ table # NoTable
  /\ table' = NoTable
  /\ UNCHANGED <<code, trace, place, seen>>

ReachNext ==
  \/ \E c \in {"qmk", "std"} : BeginRun(c)
  \/ \E op \in Ops : Execute(op)
  \/ \E op \in {"plain", "cond", "store", "return"} : Inside(op)
  \/ EndRun \/ Derive \/ Written

ReachSpec == ReachInit /\ [][ReachNext]_reachVars

-----------------------------------------------------------------------------
(* The score of fuzz_entry.                                                *)

\* The hooks: an address has one kind, and own handlers come before the rest.
\* The starts of QMK's hook and of the descriptor function are hooked before
\* any; they are taken not to be arms (none lies in Addresses), for a handler
\* that was one would never be logged as its entry's own.
HookKind(t, a) ==
  IF a \in OwnArms(t) THEN "own"
  ELSE IF \E e \in DOMAIN t.chain : a \in Route(t.chain[e]) THEN "route"
  ELSE IF a = t.missing THEN "shared" ELSE "unhooked"

\* What else _identity compares: whether the exception number, the descriptor
\* index in r1 and the OUT bytes of the records are those of the request.  The
\* tool writes the r1 of its own run down and refuses no table for it.
Rests == {"agrees", "differs"}

\* The hook log of a boot that was sent the request of entry e, by the moment
\* of each record: its chain, and whatever the firmware executes after the
\* handler's first instruction.
Logged(t, e, later, rest) ==
  LET passed == t.chain[e] \o later
      hooked == {i \in DOMAIN passed : HookKind(t, passed[i]) # "unhooked"}
  IN [i \in hooked |-> [k |-> HookKind(t, passed[i]), pc |-> passed[i],
                        setup |-> e, rest |-> rest]]

\* The entries' setup bytes differ.
Identity(h, e, t) ==
  /\ h.k = "own" /\ h.pc = Own(t.chain[e])
  /\ h.setup = e /\ h.rest = "agrees"

\* The first own record decides.
HitFor(log, e, t) ==
  \E i \in DOMAIN log :
    /\ log[i].k = "own"
    /\ \A j \in DOMAIN log : j < i => log[j].k # "own"
    /\ Identity(log[i], e, t)

-----------------------------------------------------------------------------
(* Properties.                                                             *)

IsEffect(op) ==
  \/ op \in {"store", "return", "descriptor"}
  \/ code = "std" /\ op \in Calls

Effects == {i \in DOMAIN trace : IsEffect(trace[i])}

LevelAt(i) ==
  LET n == Followed(SubSeq(trace, 1, i - 1))
  IN IF n < MaxLevels THEN n + 1 ELSE MaxLevels

\* The arm the documentation defines: the first instruction executed after the
\* level's last decision before the first effect of the chain.
DefinedArm(k) ==
  LET D == {i \in DOMAIN trace : /\ trace[i] \in {"cond", "jump", "case"}
                                 /\ LevelAt(i) = k}
  IN IF D = {} THEN None ELSE 1 + CHOOSE i \in D : \A j \in D : j <= i

\* Watching one instruction at a time, with decisions that wait for the next
\* one, calls that are skipped and levels that are never left, ends a run at
\* the first effect of the decode and comes to the arms the definition gives.
ArmsAsDefined ==
  /\ seen.stop # "none" <=> Effects # {}
  /\ seen.stop # "none"
       => /\ Effects = {Len(trace)}
          /\ Len(seen.levels) = LevelAt(Len(trace))
          /\ \A k \in DOMAIN seen.levels :
               seen.levels[k] = [arm |-> DefinedArm(k), dec |-> FALSE]

\* The rule that the first own record decides is right for the tables derive
\* accepts: a request that runs through its handler, with the registers and
\* OUT bytes of the request, is a hit for its entry and for no other, although
\* handlers are shared, and although the firmware may run on from one entry's
\* handler into another's.
HitsTellApart ==
  \A e, f \in DOMAIN table.chain :
    \A later \in SeqOf(Addresses, 1), rest \in Rests :
      HitFor(Logged(table, e, later, rest), f, table) <=> e = f /\ rest = "agrees"
=============================================================================
