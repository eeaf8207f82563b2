----------------------------- MODULE MCOptions ------------------------------
\* Options for TLC: every option of every loop, with a value; for numbers also
\* one that does not parse; for names also one that looks like another option.
EXTENDS Options, TLC

Item(opt, values, means) ==
    [opt |-> opt, values |-> values, means |-> means, broken |-> {}, dangling |-> FALSE]
Opt(opt, value) == Item(opt, <<value>>, opt :> value)
Flag(opt, field) == Item(opt, << >>, field :> TRUE)
\* A value that does not parse, and an option at the end without its values.
Invalid(opt) == [Item(opt, <<"x">>, << >>) EXCEPT !.broken = {opt}]
Lacking(it, fields) == [it EXCEPT !.broken = fields, !.dangling = TRUE]
Dangling(opt, field) == Lacking(Item(opt, << >>, << >>), {field})

MCNumbers == {"1", "3"}

KeyItems == {Opt("--sec-fd", "3"), Opt("--sec-file", "--mnemonic-fd"),
             Opt("--mnemonic-fd", "1"), Opt("--bip85-index", "1")}

\* Values that are options of their own loop, or of the other one.
ValidItems ==
    [encrypt |-> KeyItems \cup {Opt("--recipient", "--mode"), Opt("--mode", "1"),
                                Opt("--recipient", "--sec-fd"), Opt("--entropy-fd", "3")},
     decrypt |-> {Opt("--passphrase-fd", "3"), Opt("--bip85-identity", "1"),
                  Opt("--sender", "--max-size"), Opt("--max-size", "3"),
                  Opt("--sender", "A"), Opt("--sec-file", "f"),
                  Opt("--sec-file", "--allow-unverified-stream"),
                  Opt("--sec-file", "--max-size"), Opt("--sender", "--sec-file"),
                  Flag("--allow-untrusted-sender", "--allow-untrusted-sender"),
                  Flag("--allow-unverified-stream", "--allow-unverified-stream")},
     pubkey |-> KeyItems,
     sign |-> KeyItems \cup {Flag("-a", "--armor"), Flag("--armor", "--armor"),
                             Opt("--sec-file", "-a")},
     verify |-> {Opt("--sig", "f"), Opt("--sig", "--pub"), Opt("--pub", "A"),
                 Opt("--max-size", "3"), Flag("--pass-through", "--pass-through")}]
    @@ ("git-shim" :>
        {Item("--status-fd=2", << >>, "status_fd" :> "2"),
         Item("--status-fd", <<"1">>, "status_fd" :> "1"),
         Item("--verify", <<"f", "-">>,
              [is_verify |-> TRUE, sig |-> "f", data |-> "-"]),
         Item("-bsau", <<"-v">>, "key_id" :> "-v"), Item("-u", <<"A">>, "key_id" :> "A"),
         Item("-uK", << >>, "key_id" :> "K"),
         Item("--keyid-format=long", << >>, << >>)})

AllItems ==
    [c \in DOMAIN ValidItems |->
        ValidItems[c] \cup
            CASE c = "encrypt" -> {Dangling("--mode", "--mode"), Invalid("--mode"),
                                   Dangling("--recipient", "--recipient"),
                                   Dangling("--sec-fd", "--sec-fd")}
              [] c = "decrypt" -> {Invalid("--max-size"), Invalid("--sec-fd"),
                                   Dangling("--sender", "--sender")}
              [] c = "verify" -> {Dangling("--sig", "--sig"), Dangling("--pub", "--pub")}
              [] c = "git-shim" ->
                     {Lacking(Item("--verify", <<"f">>, [is_verify |-> TRUE, sig |-> "f"]),
                              {"data"}),
                      Lacking(Flag("--verify", "is_verify"), {"sig", "data"}),
                      Dangling("-u", "key_id")}
              [] OTHER -> {Dangling("--mnemonic-fd", "--mnemonic-fd"),
                           Dangling("--sec-file", "--sec-file")}]

SignItems == [c \in {"sign"} |-> ValidItems[c]]
DecryptItems == [c \in {"decrypt"} |-> AllItems[c]]
=============================================================================
