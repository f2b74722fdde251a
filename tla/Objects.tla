------------------------------ MODULE Objects ------------------------------
(***************************************************************************)
(* Where objects are, which actions they have and who shadows whom:        *)
(* f_set_environment() of object.c, destruct(), f_shadow(), f_unshadow()   *)
(* of simulate.c and add_action() with its clean-up in actions.c.          *)
(*                                                                         *)
(* The list object_t.sent holds sentences of two kinds.  action_t is an    *)
(* action: `ob' defined it, on behalf of its shadow `shadowOb' if that is  *)
(* not None.  shadow_t comes first in the list and links the object to the *)
(* one it shadows and to the one it is shadowed by.  The code reads both   *)
(* through a pointer to action_t or shadow_t without a look at the type,   *)
(* and shadowed_by lies where action_t has ob.  So a sentence is here one  *)
(* record for both: `ob' is the definer of an action and the shadower of   *)
(* its object in a shadow sentence.                                        *)
(*                                                                         *)
(* shadow(), and add_action() when a shadow calls it, ask the master in    *)
(* the middle: LPC code runs there, with all the efuns below, and what was *)
(* tested or found before may not hold any more when the efun goes on.     *)
(***************************************************************************)
EXTENDS Integers, FiniteSets, Sequences, SequencesExt

CONSTANTS
  Objects,
  Masters,      \* objects that are destructed with what is in them
  None,
  MaxActions,   \* bound: actions in all lists together
  MaxUsers,     \* bound: connections at the same time
  MaxCalls,     \* bound: efuns that wait for the master at the same time
  RoomsShadow,  \* may an object shadow one that is inside it?
  MasterMeddles \* may LPC code that runs while an efun waits for the master
                \* undo what the efun tested before, and does not test again?

ASSUME ObjectsAssumption ==
  /\ IsFiniteSet(Objects) /\ Masters \subseteq Objects /\ None \notin Objects
  /\ {MaxActions, MaxUsers, MaxCalls} \subseteq Nat
  /\ {RoomsShadow, MasterMeddles} \subseteq BOOLEAN

VARIABLES
  live,         \* objects that are not destructed
  super,        \* object_t.super, the environment
  contains,     \* object_t.contains and next_inv, the inventory
  ann,          \* the lists of sentences and O_SHADOW:
                \*   [sent : object -> sentences, flagged : set of objects]
  interactive,  \* objects with a connection: the field ip of shadow_t
  hung,         \* destruct() follows a ring of pointers for ever
  calls         \* the efuns that wait for the master, the innermost last

vars == <<live, super, contains, ann, interactive, hung, calls>>

(* `current' calls the efun.  `ob' is the object to shadow, or how far the *)
(* walk down from the shadow `current' got in add_action().                *)
Calls == [efun : {"shadow", "add_action"}, current : Objects, ob : Objects]

Action(ob, shadowOb) ==
  [type |-> "action", link |-> None, ob |-> ob, shadowOb |-> shadowOb]

ShadowSentence ==
  [type |-> "shadow", link |-> None, ob |-> None, shadowOb |-> None]

ElementsOf(seq) == ToSet(seq)

(* The elements of seq at some places, in their order.                     *)
KeepAt(seq, places) ==
  LET f[n \in 0 .. Len(seq)] ==
        IF n = 0 THEN << >>
        ELSE IF n \in places THEN Append(f[n - 1], seq[n]) ELSE f[n - 1]
  IN  f[Len(seq)]

Without(seq, x) == KeepAt(seq, {i \in DOMAIN seq : seq[i] # x})

(* x, next[x], next[next[x]]...: no chain of pointers between objects has  *)
(* more links than there are objects.                                      *)
Steps(next, x) ==
  LET f[n \in 0 .. Cardinality(Objects)] == IF n = 0 THEN x ELSE next[f[n - 1]]
  IN  f

(***************************************************************************)
(* Shadow sentences; a is the value of ann.                                *)
(***************************************************************************)
IsFlagged(a, o) == o \in a.flagged

(* The places of all actions.                                              *)
ActionsOf(a) ==
  {at \in Objects \X (1 .. MaxActions + 1) :
     at[2] \in DOMAIN a.sent[at[1]] /\ a.sent[at[1]][at[2]].type = "action"}

(* O_GET_SHADOW(o)->shadowing and ->shadowed_by                            *)
Shadowing(a, o) == IF IsFlagged(a, o) THEN Head(a.sent[o]).link ELSE None
ShadowedBy(a, o) == IF IsFlagged(a, o) THEN Head(a.sent[o]).ob ELSE None

SetShadowing(a, o, x) == [a EXCEPT !.sent[o][1].link = x]
SetShadowedBy(a, o, x) == [a EXCEPT !.sent[o][1].ob = x]

AssertShadowSent(a, o) ==
  IF IsFlagged(a, o) THEN a
  ELSE [a EXCEPT !.sent[o] = <<ShadowSentence>> \o @,
                 !.flagged = @ \cup {o}]

CheckShadowSent(a, o, ips) ==
  IF /\ IsFlagged(a, o) /\ o \notin ips
     /\ Shadowing(a, o) = None /\ ShadowedBy(a, o) = None
  THEN [a EXCEPT !.sent[o] = Tail(@), !.flagged = @ \ {o}]
  ELSE a

(* From a shadow down: the objects below it, the one at the bottom; and    *)
(* the one at the top of the chain of an object.                           *)
Chain(a, o) ==
  Steps([x \in Objects |-> IF Shadowing(a, x) = None THEN x ELSE Shadowing(a, x)], o)

Below(a, o) == {Chain(a, o)[n] : n \in DOMAIN Chain(a, o)} \ {o}

Bottom(a, o) == Chain(a, o)[Cardinality(Objects)]

Top(a, o) ==
  Steps([x \in Objects |-> IF ShadowedBy(a, x) = None THEN x ELSE ShadowedBy(a, x)],
        o)[Cardinality(Objects)]

(***************************************************************************)
(* Removal of actions.                                                     *)
(***************************************************************************)
Siblings(o) == IF super[o] = None THEN {} ELSE ElementsOf(contains[super[o]])

(* Mutant: the inventory of a destructed object stays where it is.         *)
NothingInside(o) == {}

Inside(o) == ElementsOf(contains[o])

Around(o) == Siblings(o) \cup ({super[o]} \ {None})

(* remove_action_sent(ob, player) for each of some players                 *)
RemoveActionSent(a, ob, players) ==
  [a EXCEPT !.sent = [p \in Objects |->
     IF p \in players THEN KeepAt(@[p], {i \in DOMAIN @[p] : @[p][i].ob # ob})
     ELSE @[p]]]

NotOfShadow(sent, shadow) ==
  KeepAt(sent, {i \in DOMAIN sent : sent[i].shadowOb # shadow})

(* Mutant: as if only the object right below the shadow was searched.      *)
RemoveOwnShadowActions(a, shadow, target) ==
  [a EXCEPT !.sent[target] = NotOfShadow(@, shadow)]

(* remove_shadow_actions(shadow, target)                                   *)
RemoveShadowActions(a, shadow, target) ==
  LET t == Bottom(a, target)
      players == {t} \cup ((Inside(t) \cup Siblings(t)) \ {shadow})
                     \cup ({super[t]} \ {None})
  IN  [a EXCEPT !.sent = [p \in Objects |->
         IF p \in players THEN NotOfShadow(@[p], shadow) ELSE @[p]]]

(* remove_environment_sent(player): decides for each run of sentences with *)
(* the same ob by the first of them.                                       *)
RemoveEnvironmentSent(a, player) ==
  LET s == a.sent[player]
      First(i) == CHOOSE j \in 1 .. i :
                    /\ \A k \in j .. i : s[k].ob = s[i].ob
                    /\ j = 1 \/ s[j - 1].ob # s[i].ob
      FromEnvironment(x) ==
        /\ x.type = "action"
        /\ \/ x.ob = super[player]
           \/ x.ob # player /\ x.ob \in Siblings(player)
  IN  [a EXCEPT !.sent[player] =
         KeepAt(s, {i \in DOMAIN s : ~FromEnvironment(s[First(i)])})]

(***************************************************************************)
(* The life of an object.                                                  *)
(***************************************************************************)
Lives(o) == o \in live /\ ~hung

Create(o) ==
  /\ o \notin live /\ o \notin interactive /\ ann.sent[o] = << >>
  /\ \A i \in DOMAIN calls : o \notin {calls[i].current, calls[i].ob}
  /\ live' = live \cup {o}
  /\ UNCHANGED <<super, contains, ann, interactive, hung, calls>>

(* destruct(): unlinks `ob' from its chain of shadows, first from the      *)
(* object it shadows, then from the one that shadows it.                   *)
LeaveShadowing(a, ob) ==
  LET victim == Shadowing(a, ob)
      relinked == SetShadowedBy(SetShadowing(a, ob, None), victim,
                                ShadowedBy(a, ob))
  IN  IF victim = None THEN a
      ELSE RemoveShadowActions(CheckShadowSent(relinked, victim, interactive),
                               ob, victim)

(* Mutant: the shadow of `ob' goes on shadowing it.                        *)
LeaveShadowLinked(left, a, ob) ==
  IF ShadowedBy(left, ob) = None THEN left ELSE SetShadowedBy(left, ob, None)

(* ... `a' is the value before that: it still has the victim.              *)
LeaveShadow(left, a, ob) ==
  LET shadow == ShadowedBy(left, ob)
      relinked == SetShadowing(SetShadowedBy(left, ob, None), shadow,
                               Shadowing(a, ob))
  IN  IF shadow = None THEN left ELSE CheckShadowSent(relinked, shadow, interactive)

(* The loop over the shadows of `ob', which takes the first sentence of    *)
(* each for its shadow sentence: after Turns(a) turns it is in a ring.     *)
Turns == Cardinality(Objects) * (MaxActions + 2)

RemoveShadowsActions(a, ob, first) ==
  LET f[n \in 0 .. Turns] ==
        IF n = 0 THEN [ann |-> a, shadow |-> first]
        ELSE LET w == f[n - 1]
                 b == RemoveShadowActions(w.ann, w.shadow, ob)
             IN  IF w.shadow = None THEN w
                 ELSE [ann |-> b,
                       shadow |-> IF b.sent[w.shadow] = << >> THEN None
                                  ELSE Head(b.sent[w.shadow]).ob]
  IN  f[Turns]

UnlinkShadows(ob) ==
  LET left == LeaveShadowing(ann, ob)
  IN  RemoveShadowsActions(LeaveShadow(left, ann, ob), ob, ShadowedBy(left, ob))

(* prepare_destruct() asks for an empty inventory, but the master, that is *)
(* destructed without, and asks before the LPC code that runs when the     *)
(* buffer of a user's editor is saved.                                     *)
MayDestruct(ob) ==
  contains[ob] = << >> \/ ob \in Masters \/ (MasterMeddles /\ ob \in interactive)

Destruct(ob) ==
  /\ Lives(ob)
  /\ MayDestruct(ob)
  /\ LET end == UnlinkShadows(ob)
         a == CheckShadowSent(end.ann, ob, interactive)
     IN  IF end.shadow # None
         THEN hung' = TRUE /\ UNCHANGED <<live, super, contains, ann, interactive, calls>>
         ELSE /\ ann' = RemoveActionSent(a, ob, Inside(ob) \cup Around(ob))
              /\ super' = [o \in Objects |->
                             IF o = ob \/ o \in Inside(ob) THEN None ELSE super[o]]
              /\ contains' = [o \in Objects |->
                                IF o = ob THEN << >>
                                ELSE IF o = super[ob] THEN Without(contains[o], ob)
                                ELSE contains[o]]
              /\ live' = live \ {ob}
              /\ UNCHANGED <<interactive, hung, calls>>

(* remove_interactive() and the sentences in remove_object(), from the     *)
(* backend, when no LPC code runs.                                         *)
RemoveObject(ob) ==
  /\ calls = << >>
  /\ ob \notin live /\ (ann.sent[ob] # << >> \/ ob \in interactive)
  /\ interactive' = interactive \ {ob}
  /\ ann' = [CheckShadowSent(ann, ob, interactive') EXCEPT !.sent[ob] = << >>]
  /\ UNCHANGED <<live, super, contains, hung, calls>>

(***************************************************************************)
(* Movement.                                                               *)
(***************************************************************************)
IsOrIsAround(o, item) ==
  LET outer == Steps([x \in Objects \cup {None} |->
                        IF x = None THEN None ELSE super[x]], o)
  IN  \E n \in DOMAIN outer : outer[n] = item

(* Mutant: the others keep the actions they have from `item'.              *)
LeaveOwnActions(item) ==
  IF super[item] = None THEN ann ELSE RemoveEnvironmentSent(ann, item)

(* What goes when `item' leaves: the actions it has from its environment   *)
(* and those that others there have from it.                               *)
LeaveActions(item) ==
  IF super[item] = None THEN ann
  ELSE RemoveActionSent(RemoveEnvironmentSent(ann, item), item,
                        Around(item) \ {item})

SetEnvironment(item, dest) ==
  /\ Lives(item) /\ dest \in live \cup {None}
  /\ Shadowing(ann, item) = None
  /\ dest # None => ~IsOrIsAround(dest, item)
  /\ dest \in Masters => contains[dest] = << >>
  /\ ann' = LeaveActions(item)
  /\ super' = [super EXCEPT ![item] = dest]
  /\ contains' = [o \in Objects |->
       LET rest == Without(contains[o], item)
       IN  IF o = dest THEN <<item>> \o rest ELSE rest]
  /\ UNCHANGED <<live, interactive, hung, calls>>

(***************************************************************************)
(* Efuns that ask the master.                                              *)
(***************************************************************************)
Ask(efun, current, ob) ==
  /\ Len(calls) < MaxCalls
  /\ calls' = Append(calls, [efun |-> efun, current |-> current, ob |-> ob])
  /\ UNCHANGED <<live, super, contains, ann, interactive, hung>>

(* The master said yes to the innermost of them.                           *)
Allowed(efun) == calls # << >> /\ Last(calls).efun = efun /\ ~hung

(* It said no or failed, or what is tested after the answer is not so.     *)
Refuse ==
  /\ calls # << >> /\ ~hung
  /\ calls' = Front(calls)
  /\ UNCHANGED <<live, super, contains, ann, interactive, hung>>

(***************************************************************************)
(* Actions.                                                                *)
(***************************************************************************)
InVicinity(ob, giver) ==
  \/ ob = giver
  \/ super[ob] = giver
  \/ super[ob] # None /\ super[ob] = super[giver]
  \/ ob = super[giver]

Insert(giver, ob, shadowOb) ==
  LET at == IF IsFlagged(ann, giver) THEN 2 ELSE 1
  IN  /\ Lives(giver) /\ InVicinity(ob, giver)
      /\ ann' = [ann EXCEPT !.sent[giver] = InsertAt(@, at, Action(ob, shadowOb))]
      /\ UNCHANGED <<live, super, contains, interactive, hung>>

(* `current' shadows nobody, or nothing it shadows has the function of the *)
(* action: the master is not asked.                                        *)
AddAction(current, giver) ==
  /\ Lives(current)
  /\ Insert(giver, Bottom(ann, current),
            IF Shadowing(ann, current) # None THEN current ELSE None)
  /\ UNCHANGED calls

(* On the way down the shadow `current' comes to `ob', which has it.       *)
AskAddAction(current, ob) ==
  /\ Lives(current) /\ ob \in Below(ann, current)
  /\ Ask("add_action", current, ob)

(* The walk goes on where it was, without a look at O_SHADOW: what it      *)
(* reads there without a shadow sentence is undefined and not followed.    *)
WalksOn == Allowed("add_action") /\ IsFlagged(ann, Last(calls).ob)

AskAgain(ob) ==
  /\ WalksOn /\ ob \in Below(ann, Last(calls).ob)
  /\ calls' = Append(Front(calls), [Last(calls) EXCEPT !.ob = ob])
  /\ UNCHANGED <<live, super, contains, ann, interactive, hung>>

(* At the bottom, which nobody tests to be still below `current'.          *)
EndAddAction(giver) ==
  LET current == Last(calls).current
      ob == Bottom(ann, Last(calls).ob)
  IN  /\ WalksOn
      /\ MasterMeddles \/ ob \in Below(ann, current)
      /\ Insert(giver, ob, current)
      /\ calls' = Front(calls)

(* With a verb the first of its actions, which has any of them: `i' is it. *)
RemoveActionEfun(current, giver, i) ==
  LET root == Bottom(ann, current)
      shadowOb == IF Shadowing(ann, current) # None THEN current ELSE None
      Matches(s) == /\ s.type = "action" /\ s.ob = root
                    /\ shadowOb # None => s.shadowOb = shadowOb
  IN  /\ Lives(current) /\ Lives(giver)
      /\ Matches(ann.sent[giver][i])
      /\ ann' = [ann EXCEPT !.sent[giver] = RemoveAt(@, i)]
      /\ UNCHANGED <<live, super, contains, interactive, hung, calls>>

(***************************************************************************)
(* Shadows.                                                                *)
(***************************************************************************)
MayShadow(current, ob) ==
  /\ ob # current
  /\ Shadowing(ann, current) = None /\ ShadowedBy(ann, current) = None
  /\ super[current] = None
  /\ Shadowing(ann, ob) = None
  /\ ~RoomsShadow => super[ob] # current

(* validate_shadowing() up to query_allow_shadow() in the master           *)
AskShadow(current, ob) ==
  /\ Lives(current) /\ ob \in live
  /\ MayShadow(current, ob)
  /\ Ask("shadow", current, ob)

(* ... and what comes after it: only destructed objects are found out.     *)
Shadow ==
  LET current == Last(calls).current
      ob == Last(calls).ob
      victim == Top(ann, ob)
      a == AssertShadowSent(AssertShadowSent(ann, ob), current)
  IN  /\ Allowed("shadow")
      /\ {current, ob} \subseteq live
      /\ MasterMeddles \/ MayShadow(current, ob)
      /\ ann' = SetShadowedBy(SetShadowing(a, current, victim), victim, current)
      /\ calls' = Front(calls)
      /\ UNCHANGED <<live, super, contains, interactive, hung>>

Unshadow(current) ==
  LET victim == Shadowing(ann, current)
      shadow == ShadowedBy(ann, current)
      a == SetShadowedBy(ann, victim, shadow)
      b == IF shadow # None THEN SetShadowing(a, shadow, victim)
           ELSE CheckShadowSent(a, victim, interactive)
      c == RemoveShadowActions(b, current, victim)
  IN  /\ Lives(current) /\ victim # None
      /\ ann' = CheckShadowSent(SetShadowedBy(SetShadowing(c, current, None),
                                              current, None),
                                current, interactive)
      /\ UNCHANGED <<live, super, contains, interactive, hung, calls>>

(***************************************************************************)
(* Connections: new_player(), remove_interactive(), f_exec().              *)
(***************************************************************************)
Connect(ob) ==
  /\ Lives(ob) /\ ob \notin interactive
  /\ Cardinality(interactive) < MaxUsers
  /\ interactive' = interactive \cup {ob}
  /\ ann' = AssertShadowSent(ann, ob)
  /\ UNCHANGED <<live, super, contains, hung, calls>>

Disconnect(ob) ==
  /\ ob \in interactive /\ ~hung
  /\ interactive' = interactive \ {ob}
  /\ ann' = CheckShadowSent(ann, ob, interactive')
  /\ UNCHANGED <<live, super, contains, hung, calls>>

(* valid_exec() in the master may have destructed either of them.          *)
Exec(ob, obfrom) ==
  /\ ~hung /\ ob # obfrom /\ obfrom \in interactive
  /\ interactive' = IF ob \in interactive THEN interactive
                    ELSE (interactive \ {obfrom}) \cup {ob}
  /\ ann' = CheckShadowSent(AssertShadowSent(ann, ob), obfrom, interactive')
  /\ UNCHANGED <<live, super, contains, hung, calls>>

Init ==
  /\ live = {} /\ interactive = {} /\ hung = FALSE /\ calls = << >>
  /\ super = [o \in Objects |-> None]
  /\ contains = [o \in Objects |-> << >>]
  /\ ann = [sent |-> [o \in Objects |-> << >>], flagged |-> {}]

Next ==
  \/ \E o \in Objects : Create(o) \/ Destruct(o) \/ RemoveObject(o)
  \/ \E item \in live, dest \in live \cup {None} : SetEnvironment(item, dest)
  \/ /\ Cardinality(ActionsOf(ann)) < MaxActions
     /\ \E giver \in live : EndAddAction(giver) \/ \E current \in live : AddAction(current, giver)
  \/ \E current, giver \in live : \E i \in DOMAIN ann.sent[giver] :
        RemoveActionEfun(current, giver, i)
  \/ \E current, ob \in live : AskShadow(current, ob) \/ AskAddAction(current, ob)
  \/ Shadow \/ Refuse
  \/ \E ob \in Objects, obfrom \in interactive : Exec(ob, obfrom)
  \/ \E o \in live : Unshadow(o) \/ Connect(o) \/ AskAgain(o)
  \/ \E o \in interactive : Disconnect(o)

Spec == Init /\ [][Next]_vars

(***************************************************************************)
(* Properties.                                                             *)
(***************************************************************************)
(* Types; an object is once in the inventory of its environment and in no  *)
(* other one, and neither inside itself nor in a destructed object.        *)
TypeOK ==
  /\ live \subseteq Objects /\ interactive \subseteq Objects
  /\ super \in [Objects -> Objects \cup {None}] /\ hung \in BOOLEAN
  /\ calls \in Seq(Calls)
  /\ ann.flagged \subseteq Objects
  /\ \A o \in Objects :
       /\ \A i \in DOMAIN ann.sent[o] :
            LET s == ann.sent[o][i]
            IN  /\ s.type \in {"action", "shadow"}
                /\ {s.link, s.ob, s.shadowOb} \subseteq Objects \cup {None}
       /\ IsInjective(contains[o])
       /\ ElementsOf(contains[o]) = {i \in Objects : super[i] = o}
       /\ super[o] # None => {o, super[o]} \subseteq live /\ ~IsOrIsAround(super[o], o)

(* doc/efun/add_action: "If the player leaves this vicinity of the object, *)
(* the actions are automatically removed."  Moves, shadows that come and   *)
(* go and destructions leave no object an action of one that is gone or    *)
(* out of reach.                                                           *)
ActionsInVicinity ==
  \A giver \in live : \A i \in DOMAIN ann.sent[giver] :
    LET s == ann.sent[giver][i]
    IN  s.type = "action" => s.ob \in live /\ InVicinity(s.ob, giver)

(* O_SHADOW, the shadow sentence and its fields agree: the sentence is     *)
(* there and is the first one exactly while it is needed, the links of a   *)
(* chain are inverse, chains are not circular and a shadow is nowhere.     *)
ShadowChains ==
  \A o \in Objects :
    /\ \A i \in DOMAIN ann.sent[o] :
         ann.sent[o][i].type = "shadow" <=> i = 1 /\ IsFlagged(ann, o)
    /\ IsFlagged(ann, o) =>
         /\ ann.sent[o] # << >>
         /\ \/ o \in interactive
            \/ Shadowing(ann, o) # None \/ ShadowedBy(ann, o) # None
    /\ Shadowing(ann, o) # None =>
         /\ {o, Shadowing(ann, o)} \subseteq live
         /\ ShadowedBy(ann, Shadowing(ann, o)) = o
         /\ super[o] = None
         /\ Shadowing(ann, Bottom(ann, o)) = None
    /\ ShadowedBy(ann, o) # None => Shadowing(ann, ShadowedBy(ann, o)) = o

(* An action that a shadow added belongs to the object it shadows, for as  *)
(* long as it shadows it: simulate.c "This object, the shadow, may have    *)
(* added actions to the shadowee, or it's vicinity. Take care to remove    *)
(* them all."                                                              *)
ShadowActionsBacked ==
  \A giver \in live : \A i \in DOMAIN ann.sent[giver] :
    LET s == ann.sent[giver][i]
    IN  s.shadowOb # None =>
          /\ Shadowing(ann, s.shadowOb) # None
          /\ Bottom(ann, s.shadowOb) = s.ob

(* destruct() comes to its end, so that "removes all shadows" is done.     *)
DestructReturns == ~hung
=============================================================================
