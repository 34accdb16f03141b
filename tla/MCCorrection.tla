----------------------------- MODULE MCCorrection -----------------------------
(* CorrectionService on a small instance: two sentences, a text that is one *)
(* of them and texts of both.                                               *)
EXTENDS CorrectionService, TLC

CONSTANTS a, b

MCSentences == {a, b}
MCTexts == {<<a>>, <<a, b>>, <<b, a>>}
MCTwoTexts == {<<a>>, <<b, a>>}
MCHard == {a}
MCWorded == {a}
MCNoneWorded == {}
RequestSymmetry == Permutations(Requests) \cup Permutations(Prompts)
=============================================================================
