------------------------------ MODULE MCRevISA ------------------------------
(***************************************************************************)
(* Instances of RevISA: complete 64-bit and 32-bit cores, a 32-bit core    *)
(* without double precision, and machine model strings out of order, with  *)
(* a repeated name, or empty.                                              *)
(***************************************************************************)
EXTENDS RevISA

Model(rv64, names, coproc) == [rv64 |-> rv64, names |-> names, coproc |-> coproc]

MCMachines ==
  {Model(TRUE, <<"G", "C", "Zicbom">>, TRUE), Model(FALSE, <<"G", "C">>, FALSE),
   Model(FALSE, <<"I", "M", "F", "C">>, FALSE), Model(TRUE, <<"I">>, FALSE),
   Model(TRUE, <<"C", "G">>, FALSE), Model(TRUE, <<"G", "G">>, FALSE), Model(FALSE, <<>>, FALSE)}

MCRegSets == {<<1, 2, 4, 8>>, <<31, 16, 8, 4>>, <<0, 0, 0, 0>>, <<2, 2, 2, 2>>, <<8, 15, 9, 10>>}

MCOperands == {0, 1, 2, 3, 5, 7, 8, 9, 15, 16, 17, 127, 128, 129, 248, 254, 255}

MCFloats == BOOLEAN \X ({0, 1, 2, 3, 4, 13, 14, 15, 16, 17, 18, 28, 29, 30, 31, 32, 34, 252, 254,
                         255, 256, 258, 508, 510, 511, 512, 520, Inf, QNaN, SNaN})
MCFewFloats == BOOLEAN \X {0, 2, 4}
=============================================================================
