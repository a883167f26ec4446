---------------------------- MODULE MCCacheUpdater ----------------------------
EXTENDS CacheUpdater

CONSTANTS jaws, alien, details, images, urgent, theaters, scores, posters, websites

MCMovies == {jaws, alien}
MCUrgent == {urgent}
MCImportant == {theaters, scores}
MCThreads == {details, images} \cup MCUrgent \cup MCImportant
MCCaches == <<posters, websites>>
=============================================================================
