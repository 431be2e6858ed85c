---------------------------- MODULE MCChatWorkflow ----------------------------
(***************************************************************************)
(* One turn of the descriptive workflow, with every reply of the model.    *)
(* The database has two municipalities with their codes and kinds of       *)
(* housing, a second table that only knows one of them, and an empty cell. *)
(* In the longest list of filters the locations agree and the others do    *)
(* not, yet a location is the first to leave nothing.                      *)
(***************************************************************************)
EXTENDS ChatWorkflow, TLC

name == "gemeente_Gemeentenaam"
code == "gemeente_Code"

MCColumns == [wonen |-> {name, code, "kind", "size", "homes"}, zorg |-> {name, "theme"}]

MCValues == {"Delft", "Rotterdam", "0503", "0599", "villa", "flat", "boat", "%a%", "care",
             "large", "small", "PLACE", "LATLON"}
MCLike   == [v \in MCValues |-> IF v = "%a%" THEN {"villa", "flat"} ELSE {v}]

Row(n, c, k, s) == name :> n @@ code :> c @@ "kind" :> k @@ "size" :> s @@ "homes" :> "flat"

MCData == [wonen |-> {Row("Delft", "0503", "villa", "large"), Row("Delft", "0503", "flat", "small"),
                      Row("Rotterdam", "0599", "flat", "small"), Row("Rotterdam", "0599", Null, "large")},
           zorg  |-> {name :> "Rotterdam" @@ "theme" :> "care"}]

MCTableOrder == <<"wonen", "zorg">>

MCCategorical == {<<"wonen", name>>, <<"wonen", code>>, <<"wonen", "kind">>,
                  <<"wonen", "size">>, <<"zorg", name>>, <<"zorg", "theme">>}

F(t, c, v) == [table |-> t, column |-> c, op |-> "=", value |-> v]

delft  == F("wonen", name, "Delft")
rdam   == F("wonen", name, "Rotterdam")
villa  == F("wonen", "kind", "villa")
code99 == F("wonen", code, "0599")

Core == {delft, rdam, villa, code99}

Filters == Core \cup
    {F("wonen", "kind", "boat"), [F("wonen", "kind", "%a%") EXCEPT !.op = "LIKE"],
     [F("wonen", "kind", "boat") EXCEPT !.op = "IS NOT NULL"],
     F("zorg", name, "Delft"), F("zorg", "theme", "care"),
     F(NoTable, name, "Delft"), F(NoTable, code, "0599"),
     F("wonen", "homes", "boat")}

Spot(v) == F(NoTable, "h3_spatial_filter", v)

Lists  == {<<>>} \cup {<<f>> : f \in Filters} \cup
          {l \in Filters \X Core : l[1] # l[2]} \cup
          {l \in Core \X Core \X Core : Cardinality({l[1], l[2], l[3]}) = 3} \cup
          {l \in Core \X Core \X Core \X Core : Cardinality({l[1], l[2], l[3], l[4]}) = 4} \cup
          {<<delft, code99, code99>>,
           <<delft, code99, rdam, F("wonen", "kind", "flat"), F("wonen", "size", "large")>>}
Around == {<<Spot("PLACE")>>, <<Spot("PLACE"), delft>>, <<Spot("LATLON"), villa>>,
           <<F(NoTable, name, "boat")>>, <<Spot("PLACE"), F(NoTable, "kind", "villa")>>,
           <<F(NoTable, code, "0599"), F("zorg", "theme", "care")>>}

Replied == [filters : Lists, origins : {<<>>}] \cup
           [filters : {<<>>, <<delft>>, <<delft, code99>>}, origins : Around]

MCIntents ==
    LET ups == Replied \cup {LookedUp(i) : i \in Replied}
    IN  ups \cup {FillTables(i) : i \in ups}
===============================================================================
