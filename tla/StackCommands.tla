---------------------------- MODULE StackCommands ----------------------------
(***************************************************************************)
(* How a stack comes to be: the commands of stacks/commands.ts given in      *)
(* comments and in the bodies of pulls, the declarations and starts they     *)
(* leave in jobs/store.ts, the walk down the branches that resolves a stack, *)
(* and the one position comment per member of stacks/comments.ts.  Requests  *)
(* are served together and wait for the forge, whose branches move meanwhile.*)
(* What becomes of the stack job is StackReview.                             *)
(***************************************************************************)
EXTENDS StackWalk

CONSTANTS Pulls,         \* pull numbers
          Stacks,        \* stack ids
          HeadOf,        \* the head branch of each pull
          Forked,        \* pulls whose head branch is in a fork
          Trunk,         \* a branch that pulls may be based on besides
          FirstBases,    \* the base branches of the pulls at first
          Given,         \* kinds of commands that are given
          Bodies,        \* bodies of pulls, by the kinds of their lines
          Requests,      \* requests served at once
          MaxCommands,   \* bound: commands and events
          MaxRebases     \* bound: changes to the branch layout

Branches == {HeadOf[p] : p \in Pulls} \cup {Trunk}

\* A pull of the repository itself is not of a branch to itself.
ASSUME StackCommandsAssumption ==
  /\ Pulls \subseteq Nat \ {0} /\ IsFiniteSet(Pulls) /\ Forked \subseteq Pulls
  /\ Given \subseteq {"declare", "start", "end", "top"}
  /\ FirstBases \subseteq [Pulls -> Branches]
  /\ \A p \in Pulls \ Forked, b \in FirstBases : b[p] # HeadOf[p]
  /\ MaxCommands \in Nat /\ MaxRebases \in Nat

VARIABLES
  layout,     \* the forge: the open pulls, and the branches of each pull
  marks,      \* the forge: position comments on each pull, by stack
  declared,   \* SQLite: stack_declarations
  starts,     \* SQLite: stack_starts: each stack's bottom pull, or 0
  lastRun,    \* SQLite: the members of each stack's last stack_review, or <<>>
  awaiting,   \* memory: each request: where it awaits, and its locals
  asked,      \* history: stacks that an end or a top was given for
  uncovered,  \* history: pulls whose event was answered by a run without them
  commands, rebases

commandVars == <<layout, marks, declared, starts, lastRun, awaiting, asked, uncovered, commands, rebases>>

-----------------------------------------------------------------------------
(* The tables *)

LayoutOf(open, base) == [open |-> open, base |-> base, head |-> HeadOf, forks |-> Forked]

Of(s) == {d \in declared : d.stack = s}
AtPosition(s, i) == {d \in Of(s) : d.position = i}
Listed(rows) == SetToSortSeq(rows, LAMBDA c, d : c.position < d.position)
PullsOf(rows) == [i \in DOMAIN Listed(rows) |-> Listed(rows)[i].pull]

\* Mutant: position and count are swapped.
SwappedRow(s, p, i, n) == [stack |-> s, pull |-> p, position |-> n, of |-> i]

Row(s, p, i, n) == [stack |-> s, pull |-> p, position |-> i, of |-> n]

\* Mutant: the position's occupant is not looked up.
OnlyOwnRow(s, p, i) == {d \in Of(s) : d.pull = p} = {}

\* upsertStackDeclaration inserts: neither the pull nor the position is taken.
Insertable(s, p, i) == {d \in Of(s) : d.pull = p} = {} /\ AtPosition(s, i) = {}

\* Mutant: members that left the chain keep their row.
KeptRows(s, chain) ==
  {d \in declared : d.stack # s \/ d.pull \notin ToSet(chain)}
    \cup {Row(s, chain[i], i, Len(chain)) : i \in DOMAIN chain}

\* recordStackDeclarations: the resolved layout replaces what was declared.
Reconciled(s, chain) ==
  {d \in declared : d.stack # s} \cup {Row(s, chain[i], i, Len(chain)) : i \in DOMAIN chain}

-----------------------------------------------------------------------------
(* Requests *)

Free == [at |-> "free", pull |-> 0, stack |-> CHOOSE s \in Stacks : TRUE, body |-> FALSE, bare |-> FALSE,
         end |-> 0, seen |-> LayoutOf({}, [p \in Pulls |-> Trunk]), list |-> <<>>, todo |-> <<>>]
Takes(h)   == awaiting[h].at = "free" /\ commands < MaxCommands /\ commands' = commands + 1
Becomes(h, r) == awaiting' = [awaiting EXCEPT ![h] = r]

\* The position comments of these pulls are seen to, one after another.
Refreshing(s, pulls) ==
  IF pulls = <<>> THEN Free ELSE [Free EXCEPT !.at = "find", !.stack = s, !.todo = pulls]

\* runStackDeclare: a conflict is answered and changes nothing.
Declare(h, s, p, i, n) ==
  /\ "declare" \in Given /\ Takes(h) /\ i <= n
  /\ IF Insertable(s, p, i)
     THEN /\ declared' = declared \cup {Row(s, p, i, n)}
          /\ Becomes(h, Refreshing(s, PullsOf(Of(s) \cup {Row(s, p, i, n)})))
     ELSE UNCHANGED <<declared, awaiting>>
  /\ UNCHANGED <<layout, marks, starts, lastRun, asked, uncovered, rebases>>

\* runStackStart: the first pull to start a stack keeps it.
Start(h, s, p) ==
  /\ "start" \in Given /\ Takes(h)
  /\ IF starts[s] = 0
     THEN starts' = [starts EXCEPT ![s] = p] /\ Becomes(h, Refreshing(s, <<p>>))
     ELSE UNCHANGED <<starts, awaiting>>
  /\ UNCHANGED <<layout, marks, declared, lastRun, asked, uncovered, rebases>>

\* runStackEnd up to its listing; the event of a body brings the pull's own base.
AwaitsList(h, s, p, end, body, bare) ==
  Becomes(h, [Free EXCEPT !.at = "list", !.stack = s, !.pull = p, !.end = end, !.body = body, !.bare = bare,
                          !.seen = layout])

End(h, s, p, body, bare) ==
  /\ "end" \in Given /\ Takes(h) /\ AwaitsList(h, s, p, p, body, bare)
  /\ asked' = IF bare THEN asked ELSE asked \cup {s}
  /\ body => p \in layout.open
  /\ UNCHANGED <<layout, marks, declared, starts, lastRun, uncovered, rebases>>

\* Mutant: declarations and a start are enough for a member's event to run.
AnyDeclared(s) == Of(s) # {}

\* hasStackReview.
HasStackReview(s) == lastRun[s] # <<>>

IsMember(s, p) == starts[s] = p \/ \E d \in Of(s) : d.pull = p

\* extractStackBodyMarker: an end wins, then the first line that is a marker.
BodyMarker(lines) ==
  LET valid == SelectSeq(lines, LAMBDA line : line \notin {"prose", "malformed"})
  IN  IF "end" \in ToSet(valid) THEN "end" ELSE IF valid # <<>> THEN Head(valid) ELSE "none"

\* resumeResolvedStack: a member of a stack that resolved before re-runs it.
Resumable(s, p) == HasStackReview(s) /\ starts[s] # 0 /\ Of(s) # {} /\ IsMember(s, p)

\* handleStackBodyMarker: else a part marker only suppresses, a start and a
\* declaration do as in a comment, and no marker leaves the pull to its review.
BodyEvent(h, s, p, lines) ==
  LET marker == BodyMarker(lines)
  IN  /\ p \in layout.open
      /\ \/ marker = "end" /\ \E bare \in BOOLEAN : End(h, s, p, TRUE, bare)
         \/ /\ marker \in {"start", "part", "declare"} /\ Resumable(s, p)
            /\ Takes(h) /\ AwaitsList(h, s, p, Last(PullsOf(Of(s))), TRUE, FALSE)
            /\ UNCHANGED <<layout, marks, declared, starts, lastRun, asked, uncovered, rebases>>
         \/ marker = "start" /\ ~Resumable(s, p) /\ Start(h, s, p)
         \/ marker = "declare" /\ ~Resumable(s, p) /\ \E i, n \in 1..Cardinality(Pulls) : Declare(h, s, p, i, n)

\* listOpenPulls is answered with the layout of this moment, or fails.
ListsPulls(h) ==
  /\ awaiting[h].at = "list"
  /\ \/ Becomes(h, Free)
     \/ Becomes(h, [awaiting[h] EXCEPT !.at = "resolve",
                      !.seen = LayoutOf(layout.open \cup (IF awaiting[h].body THEN {awaiting[h].pull} ELSE {}),
                                        [layout.base EXCEPT ![awaiting[h].pull] =
                                           IF awaiting[h].body THEN awaiting[h].seen.base[awaiting[h].pull] ELSE @])])
  /\ UNCHANGED <<layout, marks, declared, starts, lastRun, asked, uncovered, commands, rebases>>

StartsAt(p) == {s \in Stacks : starts[s] = p}
Marked      == {starts[s] : s \in Stacks} \ {0}

\* The chain that was resolved, for the stack that was named or that starts at
\* its bottom; Unresolved where there is none.
Resolution(r) ==
  IF r.bare
  THEN LET chain == ResolveStackChain(r.seen, 0, Marked, r.end)
       IN IF chain # Unresolved /\ Cardinality(StartsAt(Head(chain))) = 1
          THEN [chain |-> chain, stack |-> CHOOSE s \in StartsAt(Head(chain)) : TRUE]
          ELSE [chain |-> Unresolved, stack |-> r.stack]
  ELSE [chain |-> IF starts[r.stack] = 0 THEN Unresolved
                  ELSE ResolveStackChain(r.seen, starts[r.stack], {}, r.end),
        stack |-> r.stack]

\* runStackEnqueue: a pause, the rate limit or a draft may still refuse.
Enqueues(h, s, chain, r) ==
  \/ Becomes(h, Free) /\ UNCHANGED <<lastRun, uncovered>>
  \/ /\ lastRun' = [lastRun EXCEPT ![s] = chain] /\ Becomes(h, Refreshing(s, chain))
     /\ uncovered' = IF r.body /\ r.pull \notin ToSet(chain) THEN uncovered \cup {r.pull} ELSE uncovered

\* The rest of runStackEnd: a body whose command fails is reviewed as ever.
Resolves(h) ==
  /\ awaiting[h].at = "resolve"
  /\ LET r == awaiting[h]
         found == Resolution(r)
     IN  IF found.chain = Unresolved
         THEN Becomes(h, Free) /\ UNCHANGED <<declared, lastRun, asked, uncovered>>
         ELSE /\ declared' = Reconciled(found.stack, found.chain)
              /\ asked' = IF r.bare THEN asked \cup {found.stack} ELSE asked
              /\ Enqueues(h, found.stack, found.chain, r)
  /\ UNCHANGED <<layout, marks, starts, commands, rebases>>

\* "top of stack": the pulls it lists are read one by one.
TopCommand(h, s, p, list) ==
  /\ "top" \in Given /\ Takes(h)
  /\ Becomes(h, [Free EXCEPT !.at = "read", !.stack = s, !.pull = p, !.list = list, !.todo = list])
  /\ asked' = asked \cup {s}
  /\ UNCHANGED <<layout, marks, declared, starts, lastRun, uncovered, rebases>>

ReadsPull(h) ==
  /\ awaiting[h].at = "read" /\ awaiting[h].todo # <<>>
  /\ \/ Becomes(h, Free)
     \/ Becomes(h, [awaiting[h] EXCEPT !.todo = Tail(@),
                      !.seen.base[Head(awaiting[h].todo)] = layout.base[Head(awaiting[h].todo)]])
  /\ UNCHANGED <<layout, marks, declared, starts, lastRun, asked, uncovered, commands, rebases>>

\* validateStackMembers.
ValidMembers(r) ==
  /\ Last(r.list) = r.pull
  /\ \A i \in DOMAIN r.list :
       /\ Row(r.stack, r.list[i], i, Len(r.list)) \in declared
       /\ i > 1 => r.seen.base[r.list[i]] = HeadOf[r.list[i - 1]]

TopValidated(h) ==
  /\ awaiting[h].at = "read" /\ awaiting[h].todo = <<>>
  /\ IF ValidMembers(awaiting[h])
     THEN Enqueues(h, awaiting[h].stack, awaiting[h].list, awaiting[h])
     ELSE Becomes(h, Free) /\ UNCHANGED <<lastRun, uncovered>>
  /\ UNCHANGED <<layout, marks, declared, starts, asked, commands, rebases>>

\* upsertMarkedComment: the comments are listed, then the marked one is edited
\* or one is created; either call may fail, and the next member has its turn.
FindsComment(h) ==
  /\ awaiting[h].at = "find"
  /\ LET r == awaiting[h]
     IN Becomes(h, [r EXCEPT !.at = IF marks[Head(r.todo)][r.stack] > 0 THEN "edit" ELSE "create"])
  /\ UNCHANGED <<layout, marks, declared, starts, lastRun, asked, uncovered, commands, rebases>>

WritesComment(h) ==
  /\ awaiting[h].at \in {"edit", "create"}
  /\ \/ UNCHANGED marks
     \/ /\ awaiting[h].at = "create"
        /\ marks' = [marks EXCEPT ![Head(awaiting[h].todo)][awaiting[h].stack] = @ + 1]
  /\ Becomes(h, Refreshing(awaiting[h].stack, Tail(awaiting[h].todo)))
  /\ UNCHANGED <<layout, declared, starts, lastRun, asked, uncovered, commands, rebases>>

Rebases(p) ==
  /\ rebases < MaxRebases /\ rebases' = rebases + 1
  /\ \/ \E b \in Branches \ {layout.base[p]} : (p \in Forked \/ b # HeadOf[p]) /\ layout' = [layout EXCEPT !.base[p] = b]
     \/ p \in layout.open /\ layout' = [layout EXCEPT !.open = @ \ {p}]
  /\ UNCHANGED <<marks, declared, starts, lastRun, awaiting, asked, uncovered, commands>>

-----------------------------------------------------------------------------
StackCommandsInit ==
  /\ \E base \in FirstBases : layout = LayoutOf(Pulls, base)
  /\ marks = [p \in Pulls |-> [s \in Stacks |-> 0]]
  /\ declared = {} /\ starts = [s \in Stacks |-> 0] /\ lastRun = [s \in Stacks |-> <<>>]
  /\ awaiting = [h \in Requests |-> Free] /\ asked = {} /\ uncovered = {}
  /\ commands = 0 /\ rebases = 0

\* What a top lists: different pulls, two or more.
TopLists == {l \in SeqOf(Pulls, Cardinality(Pulls)) : Len(l) > 1 /\ IsInjective(l)}
ListsUpTo == [p \in Pulls |-> {l \in TopLists : Last(l) = p}]

StackCommandsNext ==
  \/ \E h \in Requests, s \in Stacks, p \in Pulls :
       \/ \E i, n \in 1..Cardinality(Pulls) : Declare(h, s, p, i, n)
       \/ Start(h, s, p)
       \/ \E bare \in BOOLEAN : End(h, s, p, FALSE, bare)
       \/ \E lines \in Bodies : BodyEvent(h, s, p, lines)
       \/ \E list \in TopLists : TopCommand(h, s, p, list)
  \/ \E h \in Requests :
       \/ ListsPulls(h) \/ Resolves(h) \/ ReadsPull(h) \/ TopValidated(h)
       \/ FindsComment(h) \/ WritesComment(h)
  \/ \E p \in Pulls : Rebases(p)

StackCommandsSpec == StackCommandsInit /\ [][StackCommandsNext]_commandVars

-----------------------------------------------------------------------------
(* Properties *)

StackCommandsTypeOK ==
  /\ layout \in {LayoutOf(open, base) : open \in SUBSET Pulls, base \in [Pulls -> Branches]}
  /\ \A d \in declared : d.stack \in Stacks /\ d.pull \in Pulls /\ d.position <= d.of
  /\ starts \in [Stacks -> Pulls \cup {0}]
  /\ \A s \in Stacks : IsInjective(lastRun[s]) /\ ToSet(lastRun[s]) \subseteq Pulls
  /\ \A h \in Requests : awaiting[h].at \in {"free", "list", "resolve", "read", "find", "edit", "create"}

\* "Fail-closed on every ambiguity: a missing link, a fork in the chain, a
\* cycle, or a walk that never reaches the start" (commands.ts:184-187): whatever
\* the branches are, the walk finds the stack if there is one, and else nothing.
WalkFindsTheStack ==
  \A end \in Pulls, start \in Pulls \cup {0} :
    FindsStackIn(layout, start, IF start = 0 THEN Marked ELSE {}, end, ListsUpTo[end])

\* No two members of a stack are declared at one position, and no member twice,
\* whichever declarations and resolutions met (store.ts:800-833, 868-932).
PositionsDistinct ==
  \A c, d \in declared : c.stack = d.stack /\ (c.pull = d.pull \/ c.position = d.position) => c = d

\* "a start row plus declarations alone (no end/top ever fired) is just a pending
\* declaration set and must not turn a member push into spend"
\* (webhooks.ts:1278-1280): a stack has a run only where one was asked for.
RunsWereAsked == \A s \in Stacks : lastRun[s] # <<>> => s \in asked

\* "maomao keeps exactly one marker comment per member PR up to date"
\* (comments.ts:1-5).
OneMarkerComment == \A p \in Pulls, s \in Stacks : marks[p][s] <= 1

\* "A pre-existing declaration that disagrees with the branch layout aborts the
\* run" (webhooks.ts:1240-1242): no row is re-positioned.
DeclarationsStand ==
  [][\A c \in declared, d \in declared' : c.stack = d.stack /\ c.pull = d.pull => c = d]_declared

\* "the body marker suppresses per-PR review permanently, so a push to a non-top
\* member would otherwise land with no review at all" (webhooks.ts:1260-1262): the
\* run that answers a member's event has that member.
EventIsCovered == uncovered = {}
=============================================================================
