----------------------------- MODULE ShutdownHooks -----------------------------
(***************************************************************************)
(* The hooks of one shutdown phase, as the package keeps them twice.       *)
(*                                                                         *)
(* ShutdownHookManager keeps a list sorted by priority, runs a copy of it, *)
(* and gives each hook a goroutine and a timeout.                          *)
(*                                                                         *)
(* ShutdownHandler, which the worker uses, keeps the hooks as they come    *)
(* and runs the slice itself: a slice is an array, of which an append that *)
(* does not fit makes a larger one, and a length; RemoveHook shifts inside *)
(* the array the running loop reads from.                                  *)
(***************************************************************************)
EXTENDS Naturals, Sequences, SequencesExt

CONSTANTS
    HookNames,      \* names of hooks; each is added at most once
    HookPriority,   \* the Priority of each
    Executors,      \* goroutines that call ExecutePhase
    NoHook          \* a place of an array that was never written

ASSUME HooksAssumption == HookPriority \in [HookNames -> Nat] /\ NoHook \notin HookNames

VARIABLES
    added,          \* names that were added, to each of the two
    managed,        \* m.hooks[phase]
    managerRuns,    \* per executor: the copy it runs, what it has started, what ended in time
    overdue,        \* hooks whose handler still runs after executeHook gave it up
    arrays,         \* the arrays h.hooks[phase] has had, oldest first
    handled,        \* its length; its array is the last one
    handlerRuns     \* per executor: array, length and index of its loop, and the names run

hookVars == <<added, managed, managerRuns, overdue, arrays, handled, handlerRuns>>

managerVars == <<managed, managerRuns, overdue>>
handlerVars == <<arrays, handled, handlerRuns>>

NotRunning == [copy |-> <<>>, started |-> 0, ended |-> 0]
NotLooping == [array |-> 0, length |-> 0, index |-> 0, ran |-> <<>>]

HooksTypeOK ==
    /\ added \in [{"manager", "handler"} -> SUBSET HookNames]
    /\ managed \in Seq(HookNames)
    /\ \A e \in Executors :
        /\ managerRuns[e] \in [copy : Seq(HookNames), started : Nat, ended : Nat]
        /\ managerRuns[e].started <= Len(managerRuns[e].copy)
        /\ managerRuns[e].ended \in {managerRuns[e].started, managerRuns[e].started - 1}
        /\ handlerRuns[e] \in [array : 0..Len(arrays), length : Nat, index : Nat, ran : Seq(HookNames)]
    /\ overdue \subseteq HookNames
    /\ arrays \in Seq(Seq(HookNames \cup {NoHook}))
    /\ handled \in 0..Len(arrays[Len(arrays)])

HooksInit ==
    /\ added = [o \in {"manager", "handler"} |-> {}]
    /\ managed = <<>>
    /\ managerRuns = [e \in Executors |-> NotRunning]
    /\ overdue = {}
    /\ arrays = << <<>> >> /\ handled = 0
    /\ handlerRuns = [e \in Executors |-> NotLooping]

AddOnce(owner, h) ==
    /\ h \notin added[owner]
    /\ added' = [added EXCEPT ![owner] = @ \cup {h}]

-------------------------------------------------------------------------------
(* ShutdownHookManager.                                                      *)

Before(h, g) == HookPriority[h] <= HookPriority[g]

\* Mutation of Exchange: the comparison is turned round.
ExchangeBackwards(hooks, i, j) ==
    IF Before(hooks[i], hooks[j]) THEN [hooks EXCEPT ![i] = hooks[j], ![j] = hooks[i]] ELSE hooks

Exchange(hooks, i, j) ==
    IF Before(hooks[i], hooks[j]) THEN hooks ELSE [hooks EXCEPT ![i] = hooks[j], ![j] = hooks[i]]

\* sortHooks() goes through all pairs i < j, in that order.
SortHooks(hooks) ==
    LET n == Len(hooks)
        Passed[p \in 0..n * n] ==
            IF p = 0 THEN hooks
            ELSE LET i == (p - 1) \div n + 1
                     j == ((p - 1) % n) + 1
                 IN  IF i < j THEN Exchange(Passed[p - 1], i, j) ELSE Passed[p - 1]
    IN  Passed[n * n]

ManagerAddHook(h) ==
    /\ AddOnce("manager", h)
    /\ managed' = SortHooks(Append(managed, h))
    /\ UNCHANGED <<managerRuns, overdue, handlerVars>>

ManagerRemoveHook(i) ==
    /\ managed' = RemoveAt(managed, i)
    /\ UNCHANGED <<added, managerRuns, overdue, handlerVars>>

ManagerClearHooks ==
    /\ managed' = <<>>
    /\ UNCHANGED <<added, managerRuns, overdue, handlerVars>>

ManagerExecutePhase(e) ==
    /\ managerRuns[e] = NotRunning
    /\ managerRuns' = [managerRuns EXCEPT ![e].copy = managed]
    /\ UNCHANGED <<added, managed, overdue, handlerVars>>

ExecuteHook(e) ==
    /\ managerRuns[e].ended = managerRuns[e].started
    /\ managerRuns[e].started < Len(managerRuns[e].copy)
    /\ managerRuns' = [managerRuns EXCEPT ![e].started = @ + 1]
    /\ UNCHANGED <<added, managed, overdue, handlerVars>>

\* The hook returned, failed or panicked in time; or the timeout is waited for no longer,
\* and the handler goes on beside the hooks after it.
HookEnds(e) ==
    /\ managerRuns[e].ended < managerRuns[e].started
    /\ managerRuns' = [managerRuns EXCEPT ![e].ended = @ + 1]
    /\ overdue' \in {overdue, overdue \cup {managerRuns[e].copy[managerRuns[e].started]}}
    /\ UNCHANGED <<added, managed, handlerVars>>

OverdueReturns(h) ==
    /\ h \in overdue
    /\ overdue' = overdue \ {h}
    /\ UNCHANGED <<added, managed, managerRuns, handlerVars>>

ManagerPhaseEnds(e) ==
    /\ managerRuns[e] # NotRunning
    /\ managerRuns[e].ended = Len(managerRuns[e].copy)
    /\ managerRuns' = [managerRuns EXCEPT ![e] = NotRunning]
    /\ UNCHANGED <<added, managed, overdue, handlerVars>>

-------------------------------------------------------------------------------
(* ShutdownHandler.                                                          *)

Current == Len(arrays)

\* An array that is full is copied into one twice as long.
HandlerAddHook(h) ==
    /\ AddOnce("handler", h)
    /\ LET full == arrays[Current]
           grown == [i \in 1..(IF handled = 0 THEN 1 ELSE 2 * handled) |->
                        IF i <= handled THEN full[i] ELSE IF i = handled + 1 THEN h ELSE NoHook]
       IN  arrays' = IF handled < Len(full)
                     THEN [arrays EXCEPT ![Current][handled + 1] = h] ELSE Append(arrays, grown)
    /\ handled' = handled + 1
    /\ UNCHANGED <<handlerRuns, managerVars>>

\* append(hooks[:i], hooks[i+1:]...) moves the later hooks down in the array; the last one
\* stays behind as well.
HandlerRemoveHook(i) ==
    /\ i \in 1..handled
    /\ arrays' = [arrays EXCEPT ![Current] =
                    [k \in DOMAIN @ |-> IF i <= k /\ k < handled THEN @[k + 1] ELSE @[k]]]
    /\ handled' = handled - 1
    /\ UNCHANGED <<added, handlerRuns, managerVars>>

HandlerExecutePhase(e) ==
    /\ handlerRuns[e] = NotLooping /\ handled > 0
    /\ handlerRuns' = [handlerRuns EXCEPT ![e] =
                        [array |-> Current, length |-> handled, index |-> 0, ran |-> <<>>]]
    /\ UNCHANGED <<added, arrays, handled, managerVars>>

\* What the slice held when the loop began is not what it reads: another goroutine may have
\* moved the hooks meanwhile.
HandlerRunsHook(e) ==
    /\ handlerRuns[e].index < handlerRuns[e].length
    /\ handlerRuns' = [handlerRuns EXCEPT
            ![e].index = @ + 1,
            ![e].ran = Append(@, arrays[handlerRuns[e].array][handlerRuns[e].index + 1])]
    /\ UNCHANGED <<added, arrays, handled, managerVars>>

HandlerPhaseEnds(e) ==
    /\ handlerRuns[e] # NotLooping
    /\ handlerRuns[e].index = handlerRuns[e].length
    /\ handlerRuns' = [handlerRuns EXCEPT ![e] = NotLooping]
    /\ UNCHANGED <<added, arrays, handled, managerVars>>

HooksNext ==
    \/ \E h \in HookNames : ManagerAddHook(h) \/ HandlerAddHook(h) \/ OverdueReturns(h)
    \/ \E i \in 1..Len(managed) : ManagerRemoveHook(i)
    \/ \E i \in 1..handled : HandlerRemoveHook(i)
    \/ ManagerClearHooks
    \/ \E e \in Executors :
        \/ ManagerExecutePhase(e) \/ ExecuteHook(e) \/ HookEnds(e) \/ ManagerPhaseEnds(e)
        \/ HandlerExecutePhase(e) \/ HandlerRunsHook(e) \/ HandlerPhaseEnds(e)

HooksSpec == HooksInit /\ [][HooksNext]_hookVars

-------------------------------------------------------------------------------
(* Properties.                                                               *)

\* "Lower numbers run first": the list of the manager stays sorted, with a sort that is run
\* once per hook added and lists that hooks are removed from, and so does what is run.
LowerNumbersFirst ==
    \A list \in {managed} \cup {managerRuns[e].copy : e \in Executors} :
        \A i, j \in 1..Len(list) : i < j => Before(list[i], list[j])

\* A loop of the handler runs no hook twice.
HandlerRunsOnce == \A e \in Executors : IsInjective(handlerRuns[e].ran)
===============================================================================
