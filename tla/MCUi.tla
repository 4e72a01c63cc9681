---------------------------------- MODULE MCUi ----------------------------------
(* The UI runtime on small instances. *)
EXTENDS Ui

CONSTANTS t1, t2, t3, a1, a2, i1, f, p

\* The hash tells t3 from the others, and not t1 from t2.
MCTrees == {t1, t2, t3}
MCDigest == [t \in MCTrees |-> IF t = t3 THEN 2 ELSE 1]
MCAddresses == {a1, a2}

\* Trees alike and unlike at two addresses, and another tree at either address.
MCDescriptors ==
  {[at |-> a1, of |-> t1], [at |-> a1, of |-> t3], [at |-> a2, of |-> t2], [at |-> a2, of |-> t3]}

MCInputs == {i1}
MCWidgets == {f, p}

\* Either id may come to name another kind of widget, or two widgets at once.
MCLayouts ==
  LET On(x, y) == [w \in MCWidgets |-> IF w = f THEN x ELSE y]
  IN  {On({"field"}, {"splitter"}), On({"splitter"}, {"button"}), On({"panel"}, {"field"}),
       On({"field", "panel"}, {"plain"}), On({}, {"splitter", "field"}), On({"button"}, {})}
=============================================================================
