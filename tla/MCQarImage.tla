-------------------------------- MODULE MCQarImage ------------------------------
(* Values for the constants of QarImage: words of two bytes, two of them for programs and *)
(* one for data.                                                                          *)
EXTENDS QarImage

MCWords == [program |-> 2, data |-> 1]

Load(addr, data) == [load |-> TRUE, addr |-> addr, data |-> data, readable |-> TRUE]
File1(segs) == [header |-> TRUE, phnum |-> Len(segs), segs |-> segs]

\* overlapping segments with a gap behind them, an empty one, and both memories
Overlap == File1(<<Load(0, <<1, 2>>), Load(1, <<0>>), Load(3, <<>>), Load(8, <<1, 1>>)>>)
\* segments that end at, begin beyond and cross the end of a memory
Edges == File1(<<Load(2, <<2, 1>>), Load(3, <<1, 1>>), Load(9, <<2>>), Load(10, <<1>>), Load(9, <<1, 2>>)>>)
\* a note that is no PT_LOAD, and a file that is too short for its last segment
Short ==
  File1(<<Load(0, <<2>>), [Load(0, <<1>>) EXCEPT !.load = FALSE],
          [Load(1, <<1>>) EXCEPT !.readable = FALSE]>>)
\* more program headers than the file holds, and something else than an ELF file
Torn == [File1(<<Load(0, <<1>>)>>) EXCEPT !.phnum = 2]
Other == [File1(<<>>) EXCEPT !.header = FALSE]

MCElfs == {Overlap, Edges, Short, Torn, Other}
MCHexes == {<<<<>>, <<1>>, <<2, 1>>>>, <<<<1, 2>>, <<Junk>>>>}
================================================================================
