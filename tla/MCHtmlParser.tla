---------------------------- MODULE MCHtmlParser ----------------------------
(***************************************************************************)
(* Pages of tags in which parts of tables are also elements of MathML.     *)
(***************************************************************************)
EXTENDS HtmlParser

Plain(tags) == {<<t, "none", FALSE>> : t \in tags}
MCInputs ==
    {[start |-> Plain({"table", "math", "th", "mo", "select"}), end |-> {"table"},
      tagsOnly |-> TRUE, context |-> "none", inForm |-> FALSE, max |-> 6]}
=============================================================================
