------------------------- MODULE MCArticleDownloader -------------------------
(***************************************************************************)
(* Small pools for the model checker: a main server and a fill server, and *)
(* a pool of three levels with an optional server in the middle.           *)
(***************************************************************************)
EXTENDS ArticleDownloader, TLC

MCServers == {"main", "fill"}
MCServersThree == {"main", "alt", "fill"}
MCNoServer == "none"
MCNoConnection == <<"none", 0>>

OneEach == {<<"main", 1>>, <<"fill", 1>>}
OneOfThree == {<<s, 1>> : s \in MCServersThree}

OwnerOneEach == [c \in OneEach |-> c[1]]
OwnerOfThree == [c \in OneOfThree |-> c[1]]

MainThenFill == [s \in MCServers |-> IF s = "fill" THEN 1 ELSE 0]
ThreeLevels == [s \in MCServersThree |->
    CASE s = "fill" -> 5 [] s = "alt" -> 3 [] OTHER -> 2]

NoGroups == [s \in MCServers |-> 0]
MainGroup == [s \in MCServersThree |-> IF s = "fill" THEN 0 ELSE 1]

NoneOptional == [s \in MCServers |-> FALSE]
AltOptional == [s \in MCServersThree |-> s = "alt"]

\* no job insists on a server, or one downloader works for a speed test
NoDesired == [d \in Downloaders |-> "none"]
TestsFill == CHOOSE d \in Downloaders : TRUE
OneDesiresFill == [d \in Downloaders |-> IF d = TestsFill THEN "fill" ELSE "none"]

AnyDownloader == Permutations(Downloaders)
=============================================================================
