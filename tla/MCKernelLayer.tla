---------------------------- MODULE MCKernelLayer ----------------------------
(* The layer with every set of up to two kernels, and the tools by hand: two *)
(* tries of build-initrd, three commands of pkgtool with two edits between.  *)
EXTENDS KernelLayer, SequencesExt

Kernels == {"5.15", "6.1"}
Layers == [runs : {"layer"}, opts : {{"modules", "core"}}, tries : {1},
           kernels : SUBSET Kernels, deps : SUBSET Kernels]
ByHand == [runs : {"build-initrd"}, tries : {2}, kernels : {{"5.15"}, Kernels}, deps : {{}},
           opts : {{}, {"core"}, {"modules"}, {"modules", "core"}, {"combined"}, {"all"}}]
Pkgs   == [runs |-> "pkgtool", opts |-> {}, tries |-> 1, kernels |-> {}, deps |-> {}]
MCJobs == {j \in Layers : j.deps \subseteq j.kernels} \cup ByHand \cup {Pkgs}

MCSources == {"sources.list", "sources.list.d"}

AllCommands == {Do("install", FALSE, FALSE), Do("install", TRUE, FALSE), Do("install", TRUE, TRUE),
                Do("upgrade", TRUE, FALSE), Do("upgrade", FALSE, TRUE), Do("clean", FALSE, FALSE),
                Do("remove", FALSE, FALSE)}
Plain == Do("install", FALSE, FALSE)
MCCommands == {<< >>, <<Plain>>} \cup {<<a, b, Plain>> : a, b \in AllCommands}
=============================================================================
