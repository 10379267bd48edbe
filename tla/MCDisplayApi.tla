---------------------------- MODULE MCDisplayApi ----------------------------
EXTENDS DisplayApi

Call(op) ==
    [op |-> op, token |-> TRUE, images |-> <<>>, kind |-> "text", text |-> "fits",
     color |-> Same, mode |-> "clock", total |-> Endless]

MCCalls ==
    { [Call("stop") EXCEPT !.token = FALSE],
      Call("show"),
      [Call("show") EXCEPT !.text = "long", !.images = <<"url">>],
      [Call("show") EXCEPT !.kind = "image", !.text = "blank", !.images = <<"missing">>],
      [Call("idle") EXCEPT !.mode = Off, !.color = "red"],
      [Call("idle") EXCEPT !.color = "red"],
      Call("idle"),
      [Call("idle") EXCEPT !.color = "plaid"],
      [Call("play") EXCEPT !.images = <<"file", "url", "file", "url">>, !.total = 1],
      [Call("play") EXCEPT !.images = <<"url", "missing">>],
      Call("stop"),
      Call("blank") }

Symmetry == Permutations(Requests)
=============================================================================
