------------------------- MODULE MCCompileCommands -------------------------
(***************************************************************************)
(* Two terminals and two directories: one with a target "all", a link step *)
(* and a changing flag; one like the exercises, without "all", that prints *)
(* other commands too, compiles a source of the first again, and loses one *)
(* of its own when it is edited.                                           *)
(***************************************************************************)
EXTENDS CompileCommands

Tok(kind, name) == [kind |-> kind, name |-> name]
Nvcc == Tok("compiler", "nvcc")
Src(name) == Tok("source", name)
Flag(name) == Tok("other", name)
Arch(v) == Flag(IF v = 0 THEN "-arch=sm_90" ELSE "-arch=sm_90a")
Binary == <<Tok("-o", "-o"), Src("out.c")>>   \* an output that looks like a source

MCPrinted ==
  << [v \in 0 .. EDITS |->
        << <<Nvcc, Flag("-lineinfo"), Arch(v), Src("a.cu")>> \o Binary \o <<Tok("link", "-lcublas")>>,
           <<Nvcc, Flag("x.o"), Tok("-ofile", "-ox")>> >>],
     [v \in 0 .. EDITS |->
        << <<Tok("other", "echo"), Src("b.cu")>>, <<Nvcc, Flag("-O0"), Src("a.cu")>> >>
        \o IF v = 0 THEN << <<Nvcc, Src("common.cu"), Src("b.cu")>>, <<Nvcc, Src("b.cu")>> >> ELSE <<>>] >>
MCHasAll == <<TRUE, FALSE>>
=============================================================================
