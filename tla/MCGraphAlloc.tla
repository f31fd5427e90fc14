---------------------------- MODULE MCGraphAlloc ----------------------------
(***************************************************************************)
(* Graphs for TLC to check GraphAlloc with: the shapes found in the graphs *)
(* of llama.cpp, with every choice of what each tensor's size depends on.  *)
(***************************************************************************)
EXTENDS GraphAlloc

CONSTANTS cpu, gpu

\* op, sources, root of a view, buffer
Input(b)          == [op |-> "leaf",    src |-> <<>>, root |-> 0, buffer |-> b]
Plain(src, b)     == [op |-> "plain",   src |-> src,  root |-> 0, buffer |-> b]
Over(src, b)      == [op |-> "inplace", src |-> src,  root |-> 0, buffer |-> b]
ViewOf(s, r, b)   == [op |-> "view",    src |-> <<s>>, root |-> r, buffer |-> b]
Dep(s, b)         == [op |-> "dep",     src |-> <<s>>, root |-> s, buffer |-> b]
Copy(b)           == [op |-> "copy",    src |-> <<>>, root |-> 0, buffer |-> b]

\* x + f(x), twice.
Residual ==
    << Input(cpu), Plain(<<1>>, cpu), Over(<<2, 1>>, cpu), Plain(<<3>>, cpu),
       Plain(<<4>>, cpu), Over(<<5, 3>>, cpu) >>

\* Parts of one product, and the reshape of a view.
Heads ==
    << Input(cpu), Plain(<<1>>, cpu), ViewOf(2, 2, cpu), ViewOf(2, 2, cpu),
       Over(<<3>>, cpu), Plain(<<5, 4>>, cpu), ViewOf(6, 6, cpu), ViewOf(7, 6, cpu),
       Over(<<8, 1>>, cpu) >>

\* A square, and a view that is read after its source.
Square ==
    << Input(cpu), Input(cpu), Over(<<1, 1>>, cpu), ViewOf(3, 3, cpu),
       Over(<<3, 2>>, cpu), Plain(<<4>>, cpu), Over(<<5, 6>>, cpu) >>

\* Three values at once, given back in another order.
Fork ==
    << Input(cpu), Plain(<<1>>, cpu), Plain(<<1>>, cpu), Plain(<<2>>, cpu),
       Over(<<3, 2>>, cpu), Plain(<<4, 5>>, cpu) >>

\* To another backend and back.
Split ==
    << Input(cpu), Plain(<<1>>, cpu), Dep(2, cpu), Copy(gpu), Over(<<4>>, gpu),
       Dep(5, gpu), Copy(cpu), Over(<<7, 2>>, cpu) >>

Shapes == {Residual, Heads, Square, Fork, Split}

\* The size of a tensor: two units, or one for each token, the same for the
\* largest batch only; or one unit, or two for each token.
Equal == {[fixed |-> 2, per |-> 0], [fixed |-> 0, per |-> 1]}
Other == {[fixed |-> 1, per |-> 0], [fixed |-> 0, per |-> 2]}

\* The graph of a shape, its own tensors sized by laws; at most one is an output.
Graph(shape, laws, out) ==
    [k \in DOMAIN shape |->
        [ op |-> shape[k].op, src |-> shape[k].src, root |-> shape[k].root,
          buffer |-> shape[k].buffer, out |-> k = out,
          fixed |-> IF shape[k].root = 0 THEN laws[k].fixed ELSE 0,
          per   |-> IF shape[k].root = 0 THEN laws[k].per ELSE 0 ]]

Own(shape) == {k \in DOMAIN shape : shape[k].root = 0}

AllModels ==
    UNION { {Graph(shape, laws, out) : laws \in [Own(shape) -> Equal],
                                       out \in {0, 3} \cap ({0} \cup Own(shape))}
            \cup {Graph(shape, laws, 0) : laws \in [Own(shape) -> Other]} : shape \in Shapes }

ShiftGraph == Graph(<<Input(cpu), Over(<<1>>, cpu), Plain(<<2>>, cpu)>>,
                    [k \in 1 .. 3 |-> [fixed |-> 2, per |-> 0]], 0)

AllBuffers == {cpu, gpu}
AllBatches == {0, 1, 2}

=============================================================================
