------------------------------- MODULE MCApt --------------------------------
EXTENDS AptUpdate

Entry(on, kind, uri, components) ==
    [enabled |-> on, type |-> kind, uri |-> uri, suite |-> "stable", components |-> components]
\* An archive that is listed twice and one that publishes no InRelease; a
\* source and a disabled entry, which update skips.
TwoArchives == <<Entry(TRUE, "deb", "http://a", <<"main">>), Entry(TRUE, "deb-src", "http://a", <<"main">>),
                 Entry(FALSE, "deb", "http://c", <<"main">>),
                 Entry(TRUE, "deb", "http://a", <<"main">>), Entry(TRUE, "deb", "http://b", <<"main">>)>>
HostOf == [u \in {"http://a", "http://b", "http://c"} |->
              CASE u = "http://a" -> "a" [] u = "http://b" -> "b" [] OTHER -> "c"]
OnlyA == {"http://a"}
=============================================================================
