------------------------------ MODULE MCCompiled ------------------------------
(* Programs of a few statements, from menus for communication, memory and  *)
(* control flow; every option of the compiler.                             *)
EXTENDS Compiled

S(kind, t, a, b) == [kind |-> kind, t |-> t, a |-> a, b |-> b]
Two == <<S("data", "s", 1, 0), S("data", "s", 1, 0)>>
Default == [merge |-> TRUE, reorder |-> TRUE, continuous |-> FALSE, preserve_mem_order |-> TRUE, dead_code |-> FALSE, max_parallel_open |-> 0]
WithDefault(options) == {Default} \cup options

Communication ==
  [start |-> Two, length |-> 4,
   statements |-> {S("open", "s", 1, 0), S("open", "s", 2, 0), S("calc", "s", 1, 2), S("print", "c", 1, 0), S("public", "c", 1, 0),
                   S("private", "s", 1, 0), S("private", "s", 2, 1), S("input", "s", 0, 0), S("input", "s", 0, 1)},
   options |-> WithDefault({[Default EXCEPT !.reorder = FALSE], [Default EXCEPT !.dead_code = TRUE]})]
Memory ==
  [start |-> Two \o <<S("open", "s", 1, 0), S("int", "ci", 3, 0)>>, length |-> 4,
   statements |-> {S("store", "s", 1, 3), S("load", "s", 1, 3), S("storei", "s", 2, 1), S("loadi", "s", 1, 1), S("open", "s", 1, 0)},
   options |-> WithDefault({[Default EXCEPT !.continuous = TRUE], [Default EXCEPT !.reorder = FALSE], [Default EXCEPT !.dead_code = TRUE]})]
Vectors ==
  [start |-> <<S("data", "s", 2, 0), S("data", "s", 1, 0), S("data", "sg", 1, 0)>>, length |-> 4,
   statements |-> {S("open", "s", 1, 0), S("open", "s", 2, 0), S("open", "sg", 1, 0), S("calc", "s", 1, 2), S("print", "c", 1, 0), S("print", "cg", 1, 0), S("calc", "sg", 1, 1)},
   options |-> WithDefault({[Default EXCEPT !.continuous = TRUE], [Default EXCEPT !.dead_code = TRUE]})]
Limited ==
  [start |-> <<S("data", "s", 2, 0), S("data", "s", 1, 0)>>, length |-> 4,
   statements |-> {S("open", "s", 1, 0), S("open", "s", 2, 0), S("calc", "s", 1, 2), S("print", "c", 1, 0)},
   options |-> WithDefault({[Default EXCEPT !.max_parallel_open = 2]})]
Control ==
  [start |-> <<S("int", "ci", 7, 0), S("loop", "ci", 2, 1)>>, length |-> 5,
   statements |-> {S("if", "ci", 1, 0), S("else", "ci", 1, 0), S("int", "ci", 0, 0), S("end", "ci", 0, 0), S("print", "ci", 1, 0), S("print", "ci", 2, 0),
                   S("data", "s", 1, 0)},
   options |-> WithDefault({[Default EXCEPT !.dead_code = TRUE], [Default EXCEPT !.merge = FALSE],
                           [Default EXCEPT !.dead_code = TRUE, !.merge = FALSE]})]
MCMenus == {Communication, Memory, Vectors, Limited, Control}
=============================================================================
