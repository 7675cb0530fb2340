---------------------------- MODULE MCIfdTraversal ----------------------------
EXTENDS IfdTraversal

E(tag, ptrs) == [tag |-> tag, ptrs |-> ptrs]
Ifds(shapes, lists, nexts) == [shape : shapes, entries : lists, next : nexts]

\* Offset 1 is IFD0; 6 is outside the file.
Roots ==
    Ifds({"Whole"},
         { << >>, <<E("Other", <<>>), E("Alien", <<>>), E("Bad", <<>>)>>,
           <<E("Sub", <<2, 3, 3>>)>>, <<E("Exif", <<2>>), E("Sub", <<3, 3>>)>>,
           <<E("Gps", <<2>>), E("Interop", <<2>>)>>, <<E("Sub", <<2>>), E("Exif", <<2>>)>>,
           <<E("Sub", <<3, 2>>), E("Exif", <<3>>), E("Gps", <<4>>)>>,
           <<E("RawSub", <<2>>), E("Sub", <<3>>)>>, <<E("Interop", <<6>>), E("Sub", <<>>), E("Exif", <<>>)>> },
         {0, 4, Torn})

Second ==
    Ifds({"Whole"}, { <<>>, <<E("Gps", <<1>>), E("Sub", <<4, 2>>)>>, <<E("RawSub", <<3>>)>> }, {0, 4})
Third == Ifds({"Whole"}, { <<>>, <<E("Interop", <<2>>)>> }, {0, 1})
Fourth == Ifds({"Whole"}, { <<E("Other", <<>>)>> }, {0, 5})
Fifth == Ifds({"Whole"}, { <<>> }, {0})
Stub == Ifds({"Stub"}, { <<>> }, {0})
Cut == Ifds({"Cut"}, { <<>> }, {0})
Long == Ifds({"Long"}, { <<>> }, {0})

TheContents == << Roots, Second \cup Cut, Third \cup Long, Fourth \cup Stub, Fifth >>

Choice(ifds, total, keep, value, scratch) ==
    [ifds |-> ifds, total |-> total, keep |-> keep, value |-> value, scratch |-> scratch]
TheChoices == { Choice(6, 20, "keep", 3, 3), Choice(2, 20, "drop", 3, 1),
                Choice(6, 3, "keep", 3, 2), Choice(6, 20, "keep", 2, 1) }
=============================================================================
