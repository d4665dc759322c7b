------------------------------- MODULE Query -------------------------------
(***************************************************************************)
(* HttpServer::parseUrl (the same in both builds): the parameters in the   *)
(* part of a target behind its '?', and what they should be.               *)
(*                                                                         *)
(* A query is a sequence of characters, of which "=" and "&" matter.  The  *)
(* parameters are a function from names to values, as the std::map is.     *)
(***************************************************************************)
EXTENDS Integers, Sequences, SequencesExt

None == <<>>   \* no parameters: the function with no names

(* std::map::emplace: what is there stays. *)
Emplace(params, key, value) ==
  [k \in DOMAIN params \cup {key} |->
     IF k \in DOMAIN params THEN params[k] ELSE value]

(* One turn of the loop: '&' ends a parameter; the first '=' behind a name  *)
(* swaps key and value; anything else goes on with the value.               *)
Step(s, c) ==
  CASE c = "&" -> [key |-> <<>>, value |-> <<>>,
                   params |-> Emplace(s.params, s.key, s.value)]
    [] c = "=" /\ s.key = <<>> -> [s EXCEPT !.key = s.value, !.value = s.key]
    [] OTHER   -> [s EXCEPT !.value = Append(s.value, c)]

(* The end of the query counts as one more '&'. *)
Parse(query) ==
  FoldLeft(Step, [key |-> <<>>, value |-> <<>>, params |-> None],
           Append(query, "&")).params

-----------------------------------------------------------------------------
(* The reference.  Parameters are what stands between '&'s; each is a name, *)
(* an '=' and a value, with '='s in front of the name ignored; without a    *)
(* name, all of it is the value of the empty name.  The first one of a name *)
(* counts.                                                                  *)
Ends(query) == {i \in 1..(Len(query) + 1) : i > Len(query) \/ query[i] = "&"}

(* Where the parameter that ends at e begins. *)
Begins(query, e) ==
  CHOOSE b \in 1..e :
    /\ b = 1 \/ b - 1 \in Ends(query)
    /\ \A i \in b..(e - 1) : i \notin Ends(query)

(* The name of the parameter in b..(e-1), and where its value begins: i is  *)
(* the first character that is not a leading '=', j the next '='.           *)
Pair(query, b, e) ==
  LET i == CHOOSE i \in b..e :
             /\ \A k \in b..(i - 1) : query[k] = "="
             /\ i = e \/ query[i] # "="
      Eqs == {j \in i..(e - 1) : query[j] = "="}
  IN IF Eqs = {} THEN <<<<>>, SubSeq(query, i, e - 1)>>
     ELSE LET j == CHOOSE j \in Eqs : \A k \in Eqs : j <= k
          IN <<SubSeq(query, i, j - 1), SubSeq(query, j + 1, e - 1)>>

Params(query) ==
  LET pair == [e \in Ends(query) |-> Pair(query, Begins(query, e), e)]
      First(name) == CHOOSE e \in Ends(query) :
                       /\ pair[e][1] = name
                       /\ \A d \in Ends(query) : pair[d][1] = name => e <= d
  IN [name \in {pair[e][1] : e \in Ends(query)} |-> pair[First(name)][2]]
=============================================================================
