----------------------------- MODULE MCReaders -----------------------------
\* A stream of four samples of variable rate, which does not start at zero; and directories
\* of up to three entries of six kinds, named by numbers of one and two digits.
EXTENDS Readers, FiniteSets
Stamps == <<3, 5, 6, 9>>

File(ext, size) == [is_directory |-> FALSE, ext |-> ext, size |-> size]
SubDirectory == [is_directory |-> TRUE, ext |-> "missing", size |-> None]
Kinds ==
    {File("supported", "small"), File("supported", "large"), File("supported", None),
     File("other", None), File("missing", None), SubDirectory}
Names == {<<2>>, <<3>>, <<1, 0>>, <<1, 1>>, <<2, 0>>}
SmallDirectories ==
    UNION {[names -> Kinds] : names \in {n \in SUBSET Names : Cardinality(n) \in 0 .. 3}}
=============================================================================
