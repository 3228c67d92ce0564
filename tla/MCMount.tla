-------------------------------- MODULE MCMount --------------------------------
EXTENDS Mount

FileContent(v) == [value |-> v, raw |-> FALSE]
Raw(v) == [value |-> v, raw |-> TRUE]
Gone == FileContent(Absent)
Broken == FileContent(Invalid)

MCRoots == {"a"}
AllSpecs == {sp \in Allowed : /\ sp.authority = "file-strict" => sp.mode # "w" /\ sp.persistent
                              /\ sp.mode = "w" => sp.authority = "cell"}
\* every mode and authority; persistence matters in the end only
Fleeting == {sp \in AllSpecs : sp.persistent = (sp.authority = "file-strict")}
SyncRoots == {"a", NoValue}
SyncContents == {FileContent("a"), Raw("f"), Gone, Broken}
\* values that were in neither place before, null, and the cell being computed
FreshEdits == <<{"b", NoValue}, {"c", Null}>>
FreshForeign == <<{Raw("x"), Gone, Broken}, {FileContent("y")}>>
\* a write may fail, and nobody else writes
LiveContents == {FileContent("f")}
LiveSpecs == {sp \in AllSpecs : sp.mode # "r" /\ sp.authority = "cell"}
LiveEdits == <<{"b"}>>
LiveForeign == <<>>
\* the user goes back to the first value; somebody else writes a new one
RevertEdits == <<{"b"}, {"a"}>>
OneForeign == <<{FileContent("y")}>>
=============================================================================
