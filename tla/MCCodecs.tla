------------------------------- MODULE MCCodecs -------------------------------
(***************************************************************************)
(* The encoders and decoders for TLC: the string handlers, the file        *)
(* handlers, CTR mode, pickles and numbers side by side, with small        *)
(* blocks, units and words.                                                *)
(* No state is shared, so one of them moves while the others are at rest:  *)
(* every behaviour of each one is there, and none of their products.       *)
(***************************************************************************)
EXTENDS CryptoServiceProps, SymmetricCryptProps, PickleProps, NumbersProps,
        FileServiceProps, TLC

Values ==
  {[kind |-> "bool", size |-> 1], [kind |-> "pod", size |-> 8],
   [kind |-> "string", size |-> 5]}

(* Five bits, with a sign and without.                                     *)
IntTypes ==
  {[least |-> 0, greatest |-> 15], [least |-> -16, greatest |-> 15]}

(* Put down in files.                                                      *)
FileTexts == {<<>>, <<1>>, <<1, 2>>}

Symmetry ==
  Permutations(Object) \cup Permutations(File) \cup Permutations(Handler)

ServiceAtRest ==
  /\ Init
  /\ text = <<>>
  /\ job = CHOOSE j \in Job : j.do_encrypt

CtrAtRest == CtrInit /\ agreed = <<0, 0>>

CodecsInit ==
  /\ Init /\ CtrInit /\ PickleInit /\ NumbersInit /\ FilesInit
  /\ CtrAtRest \/ ServiceAtRest

CodecsNext ==
  \/ /\ CtrAtRest /\ PickleInit /\ NumbersInit /\ FilesInit
     /\ Next /\ UNCHANGED <<ctrVars, pickleVars, numberVars, fileVars>>
  \/ /\ ServiceAtRest /\ PickleInit /\ NumbersInit /\ FilesInit
     /\ CtrNext /\ UNCHANGED <<vars, pickleVars, numberVars, fileVars>>
  \/ /\ ServiceAtRest /\ CtrAtRest /\ NumbersInit /\ FilesInit
     /\ PickleNext /\ UNCHANGED <<vars, ctrVars, numberVars, fileVars>>
  \/ /\ ServiceAtRest /\ CtrAtRest /\ PickleInit /\ FilesInit
     /\ NumbersNext /\ UNCHANGED <<vars, ctrVars, pickleVars, fileVars>>
  \/ /\ ServiceAtRest /\ CtrAtRest /\ PickleInit /\ NumbersInit
     /\ FilesNext /\ UNCHANGED <<vars, ctrVars, pickleVars, numberVars>>

CodecsSpec ==
  CodecsInit /\ [][CodecsNext]_<<vars, ctrVars, pickleVars, numberVars, fileVars>>
==============================================================================
