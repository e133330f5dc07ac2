-------------------------------- MODULE MCVm --------------------------------
EXTENDS Vm
Seg(v, m, f, short) == [vaddr |-> v, memsz |-> m, filesz |-> f, short |-> short]
MCImages == {<<Seg(0, 2, 1, FALSE)>>, <<Seg(0, 1, 1, FALSE), Seg(2, 1, 0, TRUE)>>, <<Seg(1, 2, 1, FALSE)>>, <<Seg(0, 1, 2, FALSE)>>}
MCPage == 1 .. 13
MCMemory == {1 .. n : n \in {9, 10, 11, 12, 13}}
MCSteps == {-3, 3, 4}
=============================================================================
