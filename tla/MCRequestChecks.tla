---------------------------- MODULE MCRequestChecks ---------------------------
(* A small instance of RequestChecks: two requests that are right, one with *)
(* everything as short and one with everything as long as it may be, and    *)
(* each with one field that is at, or just past, some bound.                *)
EXTENDS RequestChecks

T(n, kind) == [bytes |-> n, kind |-> kind]

Short ==
  [op |-> "get_initiative", caller |-> T(1, "id"), actor |-> T(1, "other"),
   org |-> T(1, "other"), initiative |-> T(1, "blank"), project |-> T(1, "other"),
   update |-> T(1, "other"), key |-> T(1, "id"), name |-> T(1, "other"),
   summary |-> None, owner |-> None, snapshot |-> T(1, "blank"),
   start |-> None, date |-> None, revision |-> 1, membership |-> 1,
   progress |-> 0, position |-> 0, observed |-> 0, limit |-> 1, after |-> None]

Long ==
  [op |-> "get_initiative", caller |-> T(256, "id"), actor |-> T(512, "other"),
   org |-> T(512, "other"), initiative |-> T(512, "other"),
   project |-> T(512, "other"), update |-> T(512, "other"), key |-> T(200, "id"),
   name |-> T(240, "control"), summary |-> T(4000, "other"),
   owner |-> T(512, "other"), snapshot |-> T(128, "other"),
   start |-> 1, date |-> 2, revision |-> 2, membership |-> 2,
   progress |-> 100, position |-> 10000, observed |-> 1, limit |-> 200, after |-> 2]

Ids ==
  {T(0, "id"), T(9, "id"), T(512, "id"), T(513, "id"), T(2048, "other"), T(9, "blank"),
   T(9, "control"), T(9, "lines"), T(9, "nul")}
Days == {None, Garbage, -2500000, 1, 3}
Numbers == {Garbage, -1, 0, 1, 2}

Values ==
  [caller |-> {T(1, "other"), T(257, "id"), T(9, "nul")},
   actor |-> Ids, org |-> Ids, initiative |-> Ids, project |-> Ids, update |-> Ids,
   key |-> {T(0, "id"), T(201, "id"), T(9, "other"), T(9, "nul")},
   name |-> {None, T(241, "other"), T(9, "lines"), T(9, "nul")},
   summary |-> {None, T(4001, "other"), T(0, "blank"), T(9, "nul")},
   owner |-> {None, T(0, "id"), T(9, "nul")},
   snapshot |-> {T(129, "other"), T(0, "id"), T(9, "nul")},
   start |-> Days, date |-> Days,
   revision |-> Numbers, membership |-> Numbers,
   progress |-> {-1, 50, 101}, position |-> {-1, 5, 10001},
   observed |-> {Garbage, -719529, -719528, 2932896, 2932897},
   limit |-> {0, 201}, after |-> Numbers \cup {None}]

OneOff ==
  UNION {{[b EXCEPT ![f] = v] : v \in Values[f]} : f \in DOMAIN Values, b \in {Short, Long}}

Sent ==
  {r \in {[b EXCEPT !.op = o] : b \in OneOff \cup {Short, Long}, o \in Operations} :
     /\ r.name = None => r.op = "update_initiative"
     /\ r.summary = None => r.op # "add_initiative_update"}

(* Lists of callers, of which some are refused. *)
Lists ==
  {<<T(1, "id"), T(256, "id")>>, <<>>, <<T(1, "id"), T(257, "id")>>, <<T(9, "nul")>>,
   <<T(1, "id"), T(256, "id"), T(1, "id")>>, [i \in 1..65 |-> T(i, "id")]}
=============================================================================
