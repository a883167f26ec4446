-------------------------- MODULE MCNetflixRatings --------------------------
EXTENDS NetflixRatings

CONSTANTS disc1, disc2, liked, loved

TwoViews == {disc1, disc2}
MCRatings == {liked, loved}
=============================================================================
