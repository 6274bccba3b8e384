------------------------------ MODULE MCBench -------------------------------
(* Small matrices: contexts and concurrency, levels in the other order, *)
(* tiers with contexts of their own, and models that share or change servers. *)
EXTENDS Bench

Model(id, backend) == [id |-> id, backend |-> backend]
Tier(name, sizes) == [name |-> name, sizes |-> sizes]
Unfiltered == [tier |-> None, model |-> None]
OneModel == <<Model("a", "ollama"), Model("z", "off")>>
Matrix(models, tiers, sizes, levels) ==
    [models |-> models, enabled |-> {"ollama", "vllm"}, tiers |-> tiers, sizes |-> sizes,
     boundary |-> <<3, 2>>, levels |-> levels, repeats |-> 1, skipOomLarger |-> TRUE,
     requireSingle |-> TRUE, filters |-> {Unfiltered}]

Matrices == {
    Matrix(OneModel, <<Tier("speed", None)>>, <<1, 2>>, <<1, 2>>),
    [Matrix(OneModel, <<Tier("speed", None)>>, <<1>>, <<2, 1>>) EXCEPT !.skipOomLarger = FALSE],
    [Matrix(OneModel, <<Tier("coding", <<1>>), Tier("boundary", None)>>, <<2>>, <<1>>)
        EXCEPT !.requireSingle = FALSE,
               !.filters = {Unfiltered, [Unfiltered EXCEPT !.tier = "boundary"]}],
    Matrix(<<Model("a", "ollama"), Model("b", "ollama")>>, <<Tier("speed", None)>>, <<1, 2>>, <<1>>),
    [Matrix(<<Model("a", "vllm"), Model("a", "ollama"), Model("b", "ollama")>>,
            <<Tier("prefill_shared", None)>>, <<1>>, <<1>>)
        EXCEPT !.filters = {Unfiltered, [Unfiltered EXCEPT !.model = "a"]}]}

ASSUME DistinctMatrices == DistinctCases
=============================================================================
