----------------------------- MODULE GameOfLife -----------------------------
(***************************************************************************)
(* exercise01/task1/template/game.c: the game of life on a bounded field,  *)
(* stored row after row in two buffers that take turns, written to a file  *)
(* for each generation. Nobody else sees the fields, so step_field's outer *)
(* loop advances by a column at a time.                                    *)
(***************************************************************************)
EXTENDS Integers, Sequences, FiniteSets

CONSTANTS
  Sizes,            \* the <<width, height>> of the command lines
  Steps,            \* their numbers of steps
  NULL

VARIABLES
  life,             \* where main is
  width, height, steps,
  field,            \* the data of field_1 and field_2, or NULL
  source,           \* which of the two *source is
  frame,
  column,           \* x of step_field
  files             \* the frames written, in order

vars == <<life, width, height, steps, field, source, frame, column, files>>
arguments == <<width, height, steps>>

Init ==
  /\ life = "none"
  /\ width = 0 /\ height = 0 /\ steps = 0
  /\ field = [k \in {1, 2} |-> NULL]
  /\ source = 1
  /\ frame = 0
  /\ column = 0
  /\ files = <<>>

Cells == 0 .. width * height - 1

---------------------------------------------------------------------------
\* Reading and writing a cell

InBounds(x, y) == x >= 0 /\ x < width /\ y >= 0 /\ y < height

get_value_field(data, x, y) == InBounds(x, y) /\ data[x + y * width]

directions == {<<0, 1>>, <<1, 1>>, <<1, 0>>, <<1, -1>>,
               <<0, -1>>, <<-1, -1>>, <<-1, 0>>, <<-1, 1>>}

alive_neighbours_field(data, x, y) ==
  Cardinality({d \in directions : get_value_field(data, x + d[1], y + d[2])})

\* What step_field makes of a cell.
Lives(is_alive, alive_neighbours) ==
  IF is_alive THEN ~ (alive_neighbours < 2 \/ 3 < alive_neighbours)
              ELSE alive_neighbours = 3

---------------------------------------------------------------------------
\* A buffer of garbage, which malloc returns for any field of at least one
\* cell, unless it fails.
init_field(w, h) ==
  {NULL} \cup
    IF w < 1 \/ h < 1 THEN {}
    ELSE {[c \in 0 .. w * h - 1 |-> b] : b \in BOOLEAN}

\* The command line is read, both fields are initialised, and the first is
\* populated: with any pattern, as rand() has it.
Start ==
  /\ life = "none"
  /\ life' = "write"
  /\ \E size \in Sizes, s \in Steps :
       /\ width' = size[1] /\ height' = size[2] /\ steps' = s
       /\ \E one, two \in init_field(size[1], size[2]) :
            \E populated \in IF one = NULL THEN {NULL} ELSE [DOMAIN one -> BOOLEAN] :
              field' = <<populated, two>>
  /\ UNCHANGED <<source, frame, column, files>>

\* Called with another number of arguments, it ends with a word on its usage.
Usage ==
  /\ life = "none"
  /\ life' = "usage"
  /\ UNCHANGED <<arguments, field, source, frame, column, files>>

\* A frame is written, unless its field is NULL.
write_field ==
  /\ life = "write"
  /\ frame <= steps
  /\ files' = IF field[source] = NULL THEN files
              ELSE Append(files, [number |-> frame, width |-> width, height |-> height,
                                  bits |-> field[source]])
  /\ column' = 0
  /\ life' = "step"
  /\ UNCHANGED <<arguments, field, source, frame>>

\* The pointers are compared: two NULLs are the same field.
From == IF field[1] = NULL /\ field[2] = NULL THEN 1 ELSE source
To == 3 - From

\* Mutant: the cells that are dead and stay so are not written.
StepColumnSparsely ==
  /\ life = "step"
  /\ field[1] # NULL /\ field[2] # NULL
  /\ column < width
  /\ field' = [field EXCEPT ![To] =
       [c \in Cells |->
         LET x == c % width
             y == c \div width
             is_alive == get_value_field(field[From], x, y)
             lives == Lives(is_alive, alive_neighbours_field(field[From], x, y))
         IN IF x = column /\ (is_alive \/ lives) THEN lives ELSE @[c]]]
  /\ column' = column + 1
  /\ UNCHANGED <<life, arguments, source, frame, files>>

StepColumn ==
  /\ life = "step"
  /\ field[1] # NULL /\ field[2] # NULL
  /\ column < width
  /\ field' = [field EXCEPT ![To] =
       [c \in Cells |->
         LET x == c % width
             y == c \div width
         IN IF x = column
            THEN Lives(get_value_field(field[From], x, y),
                       alive_neighbours_field(field[From], x, y))
            ELSE @[c]]]
  /\ column' = column + 1
  /\ UNCHANGED <<life, arguments, source, frame, files>>

\* step_field returns, at once if a field is NULL, and the fields change places.
Swap ==
  /\ life = "step"
  /\ field[1] = NULL \/ field[2] = NULL \/ column = width
  /\ source' = To
  /\ frame' = frame + 1
  /\ life' = "write"
  /\ UNCHANGED <<arguments, field, column, files>>

step_field == StepColumn \/ Swap

\* free_field reads the buffer's address from the field, which a NULL field
\* has none of.
free_field ==
  /\ life = "write"
  /\ frame > steps
  /\ life' = IF field[1] = NULL \/ field[2] = NULL THEN "crashed" ELSE "exited"
  /\ UNCHANGED <<arguments, field, source, frame, column, files>>

main == write_field \/ step_field \/ free_field

Next == Start \/ Usage \/ main

Spec == Init /\ [][Next]_vars

---------------------------------------------------------------------------
\* The types.
TypeOK ==
  /\ life \in {"none", "usage", "write", "step", "exited", "crashed"}
  /\ width \in Int /\ height \in Int /\ steps \in Int
  /\ \A k \in {1, 2} : field[k] = NULL \/ field[k] \in [Cells -> BOOLEAN]
  /\ source \in {1, 2}
  /\ frame \in Nat /\ column \in Nat

\* The picture in a file, as a reader of its format sees it: the set of cells
\* alive, by row and place in the row.
Picture(file) ==
  {cell \in (1 .. file.height) \X (1 .. file.width) :
     file.bits[(cell[1] - 1) * file.width + cell[2] - 1]}

\* The rule of the game, for any set of cells alive on a board.
Around(cell) == {c \in (cell[1] - 1 .. cell[1] + 1) \X (cell[2] - 1 .. cell[2] + 1) :
                   c # cell}
Generation(board, alive) ==
  {cell \in board : \/ Cardinality(Around(cell) \cap alive) = 3
                    \/ cell \in alive /\ Cardinality(Around(cell) \cap alive) = 2}

\* When both fields are there, every frame that is written is the generation
\* after the one before it, nothing of the garbage of the second buffer or of
\* the generation before last shows through, and none is left out.
FramesAreGenerations ==
  field[1] # NULL /\ field[2] # NULL =>
    /\ \A n \in 1 .. Len(files) - 1 :
         Picture(files[n + 1]) =
           Generation((1 .. height) \X (1 .. width), Picture(files[n]))
    /\ life = "exited" /\ steps >= 0 => Len(files) = steps + 1
=============================================================================
