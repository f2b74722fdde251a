------------------------------- MODULE Swap -------------------------------
(***************************************************************************)
(* The swapper (src/src/swap.c): the allocator of the swap file and the    *)
(* objects whose programs and variables go there and come back.            *)
(*                                                                         *)
(* The list of swap_block_t is the partial function blk from the offset at *)
(* which a block begins to its size, negative for a used block, as in the  *)
(* C structure: the successor of a block is the one that begins where it   *)
(* ends.  Head is the empty block swap_list, Nil the NULL pointer.         *)
(* swap_rover, swap_previous and current_offset are kept apart, as in the  *)
(* code, which never compares them.  Sizes are counted in machine words,   *)
(* to which swap_alloc() rounds them up.                                   *)
(*                                                                         *)
(* An object is the only user of its program, as programs that are cloned  *)
(* or inherited are never swapped.  The content of the file is a sequence  *)
(* of words, each tagged with what was written there.                      *)
(***************************************************************************)
EXTENDS Integers, FiniteSets, FiniteSetsExt

CONSTANTS Objects,    \* objects that may be swapped
          Values,     \* what their variables may hold
          VarLen,     \* words a set of variables needs in the file
          ProgLen,    \* words a program needs, line numbers included
          None,
          ReadFails,  \* may read_unswapped_svalues() run out of memory?
          MaxFile,    \* bound: the file does not grow beyond this
          MaxLost     \* bound: this many writes fail

ASSUME SwapAssumption ==
  /\ ProgLen \in Nat \ {0}
  /\ VarLen \in [Values -> Nat \ {0}]
  /\ None \notin [blueprint : BOOLEAN, value : Values]
  /\ ReadFails \in BOOLEAN
  /\ MaxFile \in Nat /\ MaxLost \in Nat

VARIABLES sw,      \* the static variables of swap.c that manage the file
          file,    \* the content of the swap file
          lost,    \* history: blocks whose data could not be written
          obj      \* the objects

vars == <<sw, file, lost, obj>>

Head == -1
Nil == -2
NoSwap == -1          \* program_t.swap_num of a program without an image
Junk == [what |-> "junk", of |-> None, blueprint |-> None, value |-> None]

(***************************************************************************)
(* The list of blocks.                                                     *)
(***************************************************************************)
Abs(n) == IF n < 0 THEN -n ELSE n

SizeOf(s, b) == IF b = Head THEN 0 ELSE s.blk[b]

EndOf(s, b) == IF b = Head THEN 0 ELSE b + Abs(s.blk[b])

(* b->next                                                                 *)
NextOf(s, b) == IF EndOf(s, b) \in DOMAIN s.blk THEN EndOf(s, b) ELSE Nil

(* The last element of the list, from `last = swap_previous' on.           *)
LastOf(s) == IF DOMAIN s.blk = {} THEN Head ELSE Max(DOMAIN s.blk)

(* The element whose next is b, or the last one for NULL.                  *)
BeforeOf(s, b) ==
  CHOOSE p \in DOMAIN s.blk \cup {Head} : NextOf(s, p) = b

FitsIn(s, len) == {b \in DOMAIN s.blk : s.blk[b] >= len}

(* The search from the rover to the end of the list and, with NULL, from   *)
(* the head to where it began.                                             *)
FirstFit(s, len) ==
  LET ahead == {b \in FitsIn(s, len) : s.rover # Nil /\ b >= s.rover}
  IN  IF ahead # {} THEN Min(ahead) ELSE Min(FitsIn(s, len))

(* The rover moves on to b: current_offset counts the sizes passed, from 0 *)
(* if the walk went over the end of the list.                              *)
RoverTo(s, b) ==
  [s EXCEPT !.rover = b,
            !.previous = BeforeOf(s, b),
            !.offset = IF s.rover # Nil /\ b >= s.rover
                       THEN @ + (b - s.rover) ELSE b]

(***************************************************************************)
(* swap_alloc()                                                            *)
(***************************************************************************)
(* A block at the end of the file.                                         *)
NewSpace(s, len) ==
  [s EXCEPT !.blk = [b \in DOMAIN @ \cup {s.size} |->
                        IF b = s.size THEN -len ELSE @[b]],
            !.rover = IF @ = Nil THEN s.size ELSE @,
            !.size = @ + len]

(* Once around the list: the rover comes back to where it was.             *)
OnceAround(s) ==
  [s EXCEPT !.previous = BeforeOf(s, s.rover),
            !.offset = IF s.rover = Nil THEN s.size ELSE s.rover]

\* Mutant: a split block is no longer counted as free.
TakeBlockMiscounts(s, len) ==
  LET b == s.rover
      rest == s.blk[b] - len
  IN  [s EXCEPT !.blk = [c \in DOMAIN @ \cup
                                 (IF rest > 0 THEN {b + len} ELSE {}) |->
                           CASE c = b -> -len
                             [] c = b + len /\ rest > 0 -> rest
                             [] OTHER -> @[c]],
                !.free = @ - len,
                !.numFree = @ - 1]

(* The free block at the rover is used, and split if it is too large.      *)
TakeBlock(s, len) ==
  LET b == s.rover
      rest == s.blk[b] - len
  IN  [s EXCEPT !.blk = [c \in DOMAIN @ \cup
                                 (IF rest > 0 THEN {b + len} ELSE {}) |->
                           CASE c = b -> -len
                             [] c = b + len /\ rest > 0 -> rest
                             [] OTHER -> @[c]],
                !.free = @ - len,
                !.numFree = IF rest = 0 THEN @ - 1 ELSE @]

(* May free blocks be reused?  Outside of the compact mode once they are   *)
(* half of the file, and until they are less than a quarter.               *)
Recycles(s) ==
  \/ s.compact
  \/ IF s.recycle THEN s.free >= s.size \div 4 ELSE s.free >= s.size \div 2

Alloc(s, len) ==
  LET t == IF s.compact THEN s ELSE [s EXCEPT !.recycle = Recycles(s)]
  IN  IF ~Recycles(s) THEN NewSpace(t, len)
      ELSE IF FitsIn(t, len) = {} THEN NewSpace(OnceAround(t), len)
      ELSE TakeBlock(RoverTo(t, FirstFit(t, len)), len)

(* The offset that swap_alloc() returns.                                   *)
AllocAt(s, len) ==
  IF ~Recycles(s) \/ FitsIn(s, len) = {} THEN s.size
  ELSE RoverTo(s, FirstFit(s, len)).offset

(***************************************************************************)
(* swap_free()                                                             *)
(***************************************************************************)
FromStart(s) == [s EXCEPT !.rover = NextOf(s, Head), !.previous = Head,
                          !.offset = 0]

(* The rover on the block to free: from where it is, or from the start if  *)
(* it is already after the block.                                          *)
Find(s, at) ==
  LET f == IF at < s.offset THEN FromStart(s) ELSE s
  IN  [f EXCEPT !.rover = at, !.previous = BeforeOf(f, at),
                !.offset = @ + (at - f.rover)]

\* Mutant: the rover passes the block without counting it in current_offset.
JoinKeepsOffset(s, p) ==
  LET n == NextOf(s, p)
  IN  IF n # Nil /\ s.blk[n] > 0
      THEN [s EXCEPT !.blk = [b \in DOMAIN @ \ {n} |->
                                IF b = p THEN @[p] + @[n] ELSE @[b]],
                     !.rover = NextOf(s, n),
                     !.numFree = @ - 1]
      ELSE s

\* Mutant: the joined block is still counted as a free one.
JoinKeepsCount(s, p) ==
  LET n == NextOf(s, p)
  IN  IF n # Nil /\ s.blk[n] > 0
      THEN [s EXCEPT !.blk = [b \in DOMAIN @ \ {n} |->
                                IF b = p THEN @[p] + @[n] ELSE @[b]],
                     !.offset = @ + s.blk[n],
                     !.rover = NextOf(s, n)]
      ELSE s

(* The free block after the one at p is joined with it.                    *)
Join(s, p) ==
  LET n == NextOf(s, p)
  IN  IF n # Nil /\ s.blk[n] > 0
      THEN [s EXCEPT !.blk = [b \in DOMAIN @ \ {n} |->
                                IF b = p THEN @[p] + @[n] ELSE @[b]],
                     !.offset = @ + s.blk[n],
                     !.rover = NextOf(s, n),
                     !.numFree = @ - 1]
      ELSE s

(* Steps over the freed block if the one before it is used or the head,    *)
(* then joins what follows swap_previous: at most the freed block and one  *)
(* after it, as two free blocks never follow each other.                   *)
Free(s, at) ==
  LET f == Find(s, at)
      b == f.rover
      t == [f EXCEPT !.blk[b] = -@, !.free = @ - f.blk[b], !.numFree = @ + 1]
      u == IF SizeOf(t, t.previous) <= 0
           THEN [t EXCEPT !.previous = b, !.offset = @ + t.blk[b],
                          !.rover = NextOf(t, b)]
           ELSE t
  IN  Join(Join(u, u.previous), u.previous)

(* Else "Bad swapfile offset" or "Freeing non-allocated block": fatal().   *)
MayFree(s, at) ==
  at \in DOMAIN s.blk /\ s.blk[at] < 0 /\ Find(s, at).offset = at

(***************************************************************************)
(* The file.                                                               *)
(***************************************************************************)
Write(f, at, len, word) ==
  [i \in DOMAIN f \cup (at .. at + len - 1) |->
     IF i \in at .. at + len - 1 THEN word ELSE f[i]]

ProgWord(o, b) == [what |-> "program", of |-> o, blueprint |-> b, value |-> None]
VarWord(o, v) == [what |-> "variables", of |-> o, blueprint |-> None, value |-> v]

LenOf(word) == IF word.what = "variables" THEN VarLen[word.value] ELSE ProgLen

(* What is read at an offset; the length is in the first word.             *)
Read(f, at) ==
  IF /\ at \in DOMAIN f
     /\ f[at] # Junk
     /\ \A i \in at .. at + LenOf(f[at]) - 1 : i \in DOMAIN f /\ f[i] = f[at]
  THEN f[at] ELSE Junk

(* store_swap_block(), store_swap_block2(): if the write fails, the block  *)
(* stays allocated.  The state of the swapper and of one object is the     *)
(* record z on which the functions of swap.c operate one after the other.  *)
Store(z, len, word, ok) ==
  LET at == AllocAt(z.sw, len)
  IN  [z EXCEPT !.sw = Alloc(z.sw, len),
                !.file = Write(@, at, len, IF ok THEN word ELSE Junk),
                !.lost = IF ok THEN @ ELSE @ \cup {at}]

(* swap_free() of the block at an offset.  What remains in the file there  *)
(* is nobody's: reading it would be an error, so it counts as junk.        *)
FreeIn(z, at) ==
  [z EXCEPT !.sw = Free(@, at),
            !.file = Write(@, at, Abs(z.sw.blk[at]), Junk)]

(***************************************************************************)
(* Objects.  progIn, varsIn: the pointer is one to memory; else it holds   *)
(* the swap number.  swapped is the flag O_SWAPPED.                        *)
(***************************************************************************)
NoObject ==
  [state |-> "none", swapped |-> FALSE,
   progIn |-> TRUE, swapNum |-> NoSwap, lines |-> TRUE, blueprint |-> FALSE,
   varsIn |-> TRUE, varNum |-> NoSwap, value |-> None]

\* Mutant: the program is written again each time.
SwapProgramOfAnew(z, o, ok) ==
  LET p == z.ob
      w == Store(z, ProgLen, ProgWord(o, p.blueprint), ok)
  IN  IF ok THEN [w EXCEPT !.ob = [p EXCEPT !.progIn = FALSE, !.swapped = TRUE,
                                     !.lines = FALSE, !.blueprint = None,
                                     !.swapNum = AllocAt(z.sw, ProgLen)]]
      ELSE w

(* swap_program(): an image in the file is used again.                     *)
SwapProgramOf(z, o, ok) ==
  LET p == z.ob
      out == [p EXCEPT !.progIn = FALSE, !.swapped = TRUE, !.lines = FALSE,
                          !.blueprint = None]
  IN  IF p.swapNum # NoSwap THEN [z EXCEPT !.ob = out]
      ELSE LET w == Store(z, ProgLen, ProgWord(o, p.blueprint), ok)
           IN  IF ok THEN [w EXCEPT !.ob = [out EXCEPT !.swapNum =
                                               AllocAt(z.sw, ProgLen)]]
               ELSE w

(* swap_variables()                                                        *)
SwapVariablesOf(z, o, ok) ==
  LET len == VarLen[z.ob.value]
      w == Store(z, len, VarWord(o, z.ob.value), ok)
  IN  IF ok THEN [w EXCEPT !.ob = [@ EXCEPT !.varsIn = FALSE, !.swapped = TRUE,
                               !.value = None, !.varNum = AllocAt(z.sw, len)]]
      ELSE w

(* load_ob_from_swap(): how it ends.                                       *)
LoadResults(p) ==
     {"ok"} \cup (IF p.progIn THEN {} ELSE {"noProgram"})
            \cup (IF p.varsIn THEN {}
                  ELSE {"noVariables"} \cup
                       (IF ReadFails THEN {"badVariables"} ELSE {}))

LoadProgram(z) ==
  IF z.ob.progIn THEN z
  ELSE [z EXCEPT !.ob = [@ EXCEPT !.progIn = TRUE,
                           !.blueprint = Read(z.file, z.ob.swapNum).blueprint]]

LoadVariables(z) ==
  IF z.ob.varsIn THEN z
  ELSE LET w == Read(z.file, z.ob.varNum)
       IN  [FreeIn(z, z.ob.varNum) EXCEPT
              !.ob = [@ EXCEPT !.varsIn = TRUE, !.varNum = NoSwap,
                               !.value = w.value]]

Load(z, result) ==
  CASE result = "noProgram"    -> z
    [] result = "noVariables"  -> LoadProgram(z)
    [] result = "badVariables" -> [LoadProgram(z) EXCEPT !.ob.swapped = FALSE]
    [] result = "ok" -> [LoadVariables(LoadProgram(z)) EXCEPT
                           !.ob.swapped = FALSE]

(* remove_prog_swap()                                                      *)
RemoveProgSwap(z, loadLines) ==
  IF z.ob.swapNum = NoSwap THEN z
  ELSE [FreeIn(z, z.ob.swapNum) EXCEPT
          !.ob = [z.ob EXCEPT !.swapNum = NoSwap, !.lines = @ \/ loadLines]]

\* Mutant: the old image stays.
DropBlueprintOfKeepsImage(z) == [z EXCEPT !.ob.blueprint = FALSE]

\* Mutant: the line numbers are lost with the image.
DropBlueprintOfNoLines(z) ==
  RemoveProgSwap([z EXCEPT !.ob.blueprint = FALSE], FALSE)

(* The blueprint is gone: the program changes, its image is of no use.     *)
DropBlueprintOf(z) == RemoveProgSwap([z EXCEPT !.ob.blueprint = FALSE], TRUE)

(***************************************************************************)
(* Actions.                                                                *)
(***************************************************************************)
State(o) == [sw |-> sw, file |-> file, lost |-> lost, ob |-> obj[o]]

Become(o, z) ==
  /\ sw' = z.sw
  /\ file' = z.file
  /\ lost' = z.lost
  /\ obj' = [obj EXCEPT ![o] = z.ob]
  /\ z.sw.size <= MaxFile /\ Cardinality(z.lost) <= MaxLost

Alive(o) == obj[o].state = "alive"

Init ==
  /\ \E c \in BOOLEAN :
       sw = [blk |-> <<>>, rover |-> Nil, previous |-> Head, offset |-> 0,
             size |-> 0, free |-> 0, numFree |-> 0,
             recycle |-> FALSE, compact |-> c]
  /\ file = <<>>
  /\ lost = {}
  /\ obj = [o \in Objects |-> NoObject]

(* A new object is in memory; a clone may outlive its blueprint.           *)
Create(o) ==
  /\ obj[o].state = "none"
  /\ \E b \in BOOLEAN, v \in Values :
       obj' = [obj EXCEPT ![o] = [NoObject EXCEPT !.state = "alive",
                                     !.blueprint = b, !.value = v]]
  /\ UNCHANGED <<sw, file, lost>>

(* process_objects() and swap() call these for objects in memory.          *)
SwapProgram(o) ==
  /\ Alive(o) /\ obj[o].progIn
  /\ \E ok \in BOOLEAN : Become(o, SwapProgramOf(State(o), o, ok))

SwapVariables(o) ==
  /\ Alive(o) /\ obj[o].varsIn
  /\ \E ok \in BOOLEAN : Become(o, SwapVariablesOf(State(o), o, ok))

(* A function of the object is called: the object is loaded if its flag    *)
(* says so, else, or if that succeeds, LPC code uses its variables.        *)
Call(o) ==
  /\ Alive(o)
  /\ \E result \in IF obj[o].swapped THEN LoadResults(obj[o]) ELSE {"ok"} :
       LET z == IF obj[o].swapped THEN Load(State(o), result) ELSE State(o)
       IN  IF result = "ok"
           THEN \E v \in Values : Become(o, [z EXCEPT !.ob.value = v])
           ELSE Become(o, z)

(* get_line_number(): a traceback needs the line numbers of a program.     *)
LoadLines(o) ==
  /\ obj[o].state # "none" /\ obj[o].progIn /\ ~obj[o].lines
  /\ obj' = [obj EXCEPT ![o].lines = TRUE]
  /\ UNCHANGED <<sw, file, lost>>

(* remove_object() of the blueprint, while the program is in memory.       *)
DropBlueprint(o) ==
  /\ Alive(o) /\ obj[o].progIn /\ obj[o].blueprint = TRUE
  /\ Become(o, DropBlueprintOf(State(o)))

(* swap(): variables first.  TRUE in mode: that part is to be swapped.     *)
SwapAgain(z, o, prog, var, okProg, okVar) ==
  LET y == IF var THEN SwapVariablesOf(z, o, okVar) ELSE z
  IN  IF prog THEN SwapProgramOf(y, o, okProg) ELSE y

(* cleanup_single_object(): loaded for the time of the function.  Writes   *)
(* fail only where there is something to write.                            *)
CleanUp(o) ==
  /\ Alive(o)
  /\ LET p == obj[o]
         z == IF p.swapped THEN Load(State(o), "ok") ELSE State(o)
     IN  \E drop, okProg, okVar \in BOOLEAN, v \in Values :
           /\ drop => z.ob.blueprint = TRUE
           /\ p.varsIn => okVar
           /\ p.progIn \/ ~drop => okProg
           /\ LET y == IF drop THEN DropBlueprintOf(z) ELSE z
                  x == [y EXCEPT !.ob.value = v]
              IN  Become(o, SwapAgain(x, o, ~p.progIn, ~p.varsIn,
                                      okProg, okVar))

(* The program of an object, loaded for the garbage collector, is dropped  *)
(* by its blueprint or not, and goes out again if it was out before.       *)
ProgramPutBack(z, o, drop, ok) ==
  LET p == obj[o]
      y == IF drop THEN DropBlueprintOf(z) ELSE z
      t == IF p.progIn THEN y ELSE SwapProgramOf(y, o, ok)
  IN  [t EXCEPT !.ob.swapped = ~p.varsIn \/ ~t.ob.progIn]

(* The passes of the garbage collector over one object: the variables keep *)
(* their block, which is written anew where values have changed; the       *)
(* program goes out again, to a new block if its blueprint is gone.        *)
CollectGarbage(o) ==
  /\ Alive(o) /\ obj[o].swapped
  /\ LET p == obj[o]
         z == LoadProgram(State(o))
         w == Read(file, p.varNum)
     IN  \E drop, ok \in BOOLEAN :
           /\ drop => z.ob.blueprint = TRUE
           /\ p.progIn \/ ~drop => ok
           /\ LET x == ProgramPutBack(z, o, drop, ok)
              IN  \/ p.varsIn /\ Become(o, x)
                  \/ /\ ~p.varsIn /\ w # Junk
                     /\ \E v \in Values :
                          /\ VarLen[v] = LenOf(w)
                          /\ Become(o, [x EXCEPT !.file = Write(@, p.varNum,
                                                  VarLen[v], VarWord(o, v))])

(* destruct() and remove_object(): loaded with the reserve of the system,  *)
(* the blueprint is forgotten, the variables are freed.                    *)
Destruct(o) ==
  /\ Alive(o)
  /\ LET z == IF obj[o].swapped THEN Load(State(o), "ok") ELSE State(o)
         y == IF z.ob.blueprint = TRUE THEN DropBlueprintOf(z) ELSE z
     IN  Become(o, [y EXCEPT !.ob = [@ EXCEPT !.state = "destructed",
                                                !.value = None]])

(* The last reference is gone: free_prog().                                *)
FreeObject(o) ==
  /\ obj[o].state = "destructed"
  /\ Become(o, [RemoveProgSwap(State(o), FALSE) EXCEPT !.ob = NoObject])

Next ==
  \E o \in Objects :
     \/ Create(o) \/ SwapProgram(o) \/ SwapVariables(o) \/ Call(o)
     \/ LoadLines(o) \/ DropBlueprint(o) \/ CleanUp(o) \/ CollectGarbage(o)
     \/ Destruct(o) \/ FreeObject(o)

Spec == Init /\ [][Next]_vars

(***************************************************************************)
(* Properties.                                                             *)
(***************************************************************************)
Words == {Junk} \cup {ProgWord(o, b) : o \in Objects, b \in BOOLEAN}
                \cup {VarWord(o, v) : o \in Objects, v \in Values}

Offsets == 0 .. MaxFile

(* O_SWAPPED is set if either part is swapped (src/src/swap.c:23), and     *)
(* with it clear the pointers are used as they are.                        *)
FlagIsHonest ==
  \A o \in Objects : obj[o].state = "alive" =>
     (obj[o].swapped <=> ~(obj[o].progIn /\ obj[o].varsIn))

(* Every variable keeps its type; the file has content exactly up to       *)
(* swapfile_size, and an object is in memory as far as it exists.  The     *)
(* flag is right unless reading has failed.                                *)
TypeOK ==
  /\ DOMAIN sw.blk \subseteq Offsets
  /\ \A b \in DOMAIN sw.blk : sw.blk[b] \in (-MaxFile .. MaxFile) \ {0}
  /\ sw.rover \in Offsets \cup {Nil}
  /\ sw.previous \in Offsets \cup {Head}
  /\ sw.offset \in Offsets /\ sw.size \in Offsets /\ sw.free \in Offsets
  /\ sw.numFree \in Nat
  /\ {sw.recycle, sw.compact} \subseteq BOOLEAN
  /\ DOMAIN file = 0 .. sw.size - 1
  /\ \A i \in DOMAIN file : file[i] \in Words
  /\ lost \subseteq DOMAIN sw.blk
  /\ \A o \in Objects :
       /\ obj[o].state \in {"none", "alive", "destructed"}
       /\ obj[o].blueprint \in IF obj[o].progIn THEN BOOLEAN ELSE {None}
       /\ obj[o].state = "alive" =>
            obj[o].value \in IF obj[o].varsIn THEN Values ELSE {None}
       /\ obj[o].varsIn <=> obj[o].varNum = NoSwap
  /\ ReadFails \/ FlagIsHonest

(* The list and its rover agree although nothing compares them: the blocks *)
(* lie one behind the other up to the end of the file, two free ones never *)
(* touch, swap_previous is the element before swap_rover and               *)
(* current_offset is the offset of swap_rover.                             *)
ListIsTight ==
  LET B == DOMAIN sw.blk
  IN  /\ B # {} => 0 \in B /\ EndOf(sw, LastOf(sw)) = sw.size
      /\ \A b \in B : b = LastOf(sw) \/ NextOf(sw, b) # Nil
      /\ \A b \in B : LET n == NextOf(sw, b) IN
           /\ \A c \in B : ~(b < c /\ c < EndOf(sw, b))
           /\ n # Nil => ~(sw.blk[b] > 0 /\ sw.blk[n] > 0)
      /\ sw.rover \in B \cup {Nil}
      /\ sw.previous \in B \cup {Head}
      /\ NextOf(sw, sw.previous) = sw.rover
      /\ sw.offset = IF sw.rover = Nil THEN sw.size ELSE sw.rover

FreeBlocks(s) == {b \in DOMAIN s.blk : s.blk[b] > 0}
FreeWords(s) ==
  {i \in 0 .. s.size - 1 : \E b \in FreeBlocks(s) : b <= i /\ i < EndOf(s, b)}

(* total_bytes_swapfree, on which the choice between growing the file and  *)
(* reusing free blocks rests, is the number of words in free blocks, and   *)
(* num_swapfree the number of these blocks.                                *)
FreeSpaceExact ==
  /\ sw.free = Cardinality(FreeWords(sw))
  /\ sw.numFree = Cardinality(FreeBlocks(sw))

(* Whose block is at b?                                                    *)
ProgramsAt(b) == {o \in Objects : obj[o].swapNum = b}
VariablesAt(b) == {o \in Objects : obj[o].varNum = b}

(* Each used block belongs to one program or one set of variables, and the *)
(* only blocks that are lost for good are those whose write failed; each   *)
(* swap number is one that swap_free() will accept.                        *)
UsedAreHeld ==
  LET Used == {b \in DOMAIN sw.blk : sw.blk[b] < 0}
      Held == {obj[o].swapNum : o \in Objects} \cup
              {obj[o].varNum : o \in Objects}
  IN  /\ Used \cup {NoSwap} = Held \cup lost \cup {NoSwap}
      /\ Held \cap lost = {}
      /\ \A b \in Used \ lost :
           /\ Cardinality(ProgramsAt(b)) + Cardinality(VariablesAt(b)) = 1
           /\ MayFree(sw, b)

(* swap_program() looks at the line numbers of a program without an image  *)
(* in the file, and get_line_number() at the image of one without line     *)
(* numbers: every program in memory has one or the other.                  *)
LinesAvailable ==
  \A o \in Objects : obj[o].state = "alive" /\ obj[o].progIn =>
                       obj[o].lines \/ obj[o].swapNum # NoSwap

(***************************************************************************)
(* The swapper cannot be seen: the data of an object, wherever they are,   *)
(* behave as in ObjectStore.                                               *)
(***************************************************************************)
BlueprintOf(o) ==
  IF obj[o].progIn THEN obj[o].blueprint
  ELSE LET w == Read(file, obj[o].swapNum)
       IN  IF w.what # "program" \/ w.of # o THEN None
           ELSE w.blueprint

ValueOf(o) ==
  IF obj[o].varsIn THEN obj[o].value
  ELSE LET w == Read(file, obj[o].varNum)
       IN  IF w.what # "variables" \/ w.of # o THEN None
           ELSE w.value

Seen == [o \in Objects |->
           IF obj[o].state # "alive" THEN None
           ELSE [blueprint |-> BlueprintOf(o), value |-> ValueOf(o)]]

Memory == INSTANCE ObjectStore WITH store <- Seen

(* Swapping out, in, cleaning up, failing to write or to find memory, the  *)
(* garbage collector: none of them changes or loses what an object holds.  *)
Transparent == Memory!Spec
=============================================================================
